---------------------------- MODULE Spec2Model ----------------------------
(***************************************************************************)
(* Model of MCScriptT (ql/experimental/templatemodels/montecarlo/          *)
(* mcscriptT.hpp): the constructor that compiles a script of assignment    *)
(* lines into payoff nodes, with its two line grammars                     *)
(* (parseFlexBisonScript and parseScript), the symbol table payoffs_, the  *)
(* list expressions_, the log scriptLog_ and the result payoff result_.    *)
(*                                                                         *)
(* Strings are sequences of one-character strings, so that the regular     *)
(* expressions, std::stod, std::stol and substr are computed on their      *)
(* characters.  Payoff nodes live in a heap indexed by node identity.      *)
(***************************************************************************)
EXTENDS Integers, Sequences, FiniteSets, TLC

(***************************************************************************)
(* Characters and strings                                                  *)
(***************************************************************************)
Lower == {"a","b","c","d","e","f","g","h","i","j","k","l","m",
          "n","o","p","q","r","s","t","u","v","w","x","y","z"}

Upper == {"A","B","C","D","E","F","G","H","I","J","K","L","M",
          "N","O","P","Q","R","S","T","U","V","W","X","Y","Z"}

DigitSeq == <<"0","1","2","3","4","5","6","7","8","9">>

Digit == {DigitSeq[i] : i \in 1..Len(DigitSeq)}

Letter == Lower \cup Upper

AlNum == Letter \cup Digit

\* The characters of the model's texts in the order of their character codes.
AsciiOrder == <<" ","!","&","(",")","*","+",",","-",
                "0","1","2","3","4","5","6","7","8","9",
                "<","=",">",
                "A","B","C","D","E","F","G","H","I","J","K","L","M",
                "N","O","P","Q","R","S","T","U","V","W","X","Y","Z",
                "a","b","c","d","e","f","g","h","i","j","k","l","m",
                "n","o","p","q","r","s","t","u","v","w","x","y","z","|">>

Ord(c) == CHOOSE i \in 1..Len(AsciiOrder) : AsciiOrder[i] = c

\* std::string operator< : lexicographic on character codes
RECURSIVE StrLess(_, _)
StrLess(s, t) ==
    IF t = <<>> THEN FALSE
    ELSE IF s = <<>> THEN TRUE
    ELSE IF Ord(Head(s)) < Ord(Head(t)) THEN TRUE
    ELSE IF Ord(Head(s)) > Ord(Head(t)) THEN FALSE
    ELSE StrLess(Tail(s), Tail(t))

\* str.substr(pos, n), pos counted from 0
Substr(s, pos, n) == SubSeq(s, pos + 1, IF pos + n > Len(s) THEN Len(s) ELSE pos + n)

\* s from its i-th character (counted from 1) to its end
From(s, i) == SubSeq(s, i, Len(s))

\* t is a prefix of s
StartsWith(s, t) == Len(s) >= Len(t) /\ SubSeq(s, 1, Len(t)) = t

DigitVal(c) == CHOOSE d \in 0..9 : DigitSeq[d + 1] = c

ToLower(c) ==
    IF c \in Upper
    THEN AsciiOrder[Ord(c) - Ord("A") + Ord("a")]
    ELSE c

LowerStr(s) == [i \in 1..Len(s) |-> ToLower(s[i])]

\* the length of the longest prefix of s made of characters of set cs
RECURSIVE Span(_, _)
Span(s, cs) == IF s # <<>> /\ Head(s) \in cs THEN 1 + Span(Tail(s), cs) ELSE 0

\* the value of a sequence of decimal digits
RECURSIVE DecValue(_)
DecValue(ds) ==
    IF ds = <<>> THEN 0
    ELSE 10 * DecValue(SubSeq(ds, 1, Len(ds) - 1)) + DigitVal(ds[Len(ds)])

\* the decimal digits of a natural number
RECURSIVE DecDigits(_)
DecDigits(n) ==
    IF n < 10 THEN <<DigitSeq[n + 1]>>
    ELSE DecDigits(n \div 10) \o <<DigitSeq[(n % 10) + 1]>>

\* std::to_string of a Size
to_string(n) == DecDigits(n)

(***************************************************************************)
(* Numbers.  A number is finite (the rational num/den), an infinity        *)
(* (num = 1 or -1) or a NaN.  The texts of the model hold no '.', no       *)
(* exponent and no hexadecimal prefix, so a finite value read by std::stod *)
(* is an integer; a date offset is a number of days over 365.              *)
(***************************************************************************)
Fin(n, d) == [kind |-> "fin", num |-> n, den |-> d]

Inf(sgn) == [kind |-> "inf", num |-> sgn, den |-> 1]

NaN == [kind |-> "nan", num |-> 0, den |-> 1]

NoNumber == [ok |-> FALSE, val |-> Fin(0, 1)]

\* std::stod(str, &sz): leading white space is skipped, then an optional
\* sign, then the longest prefix that is a decimal number, "inf" or "nan"
\* (any case); what follows the prefix is ignored.  ok = FALSE stands for
\* the std::invalid_argument that std::stod throws when there is no such
\* prefix.
stod(str) ==
    LET t    == From(str, Span(str, {" "}) + 1)
        neg  == t # <<>> /\ Head(t) = "-"
        sgn  == IF neg THEN -1 ELSE 1
        u    == IF t # <<>> /\ Head(t) \in {"+", "-"} THEN Tail(t) ELSE t
        nd   == Span(u, Digit)
        lu   == LowerStr(u)
    IN  IF nd > 0 THEN [ok |-> TRUE, val |-> Fin(sgn * DecValue(SubSeq(u, 1, nd)), 1)]
        ELSE IF StartsWith(lu, <<"i","n","f">>) THEN [ok |-> TRUE, val |-> Inf(sgn)]
        ELSE IF StartsWith(lu, <<"n","a","n">>) THEN [ok |-> TRUE, val |-> NaN]
        ELSE NoNumber

\* std::stol(str, &sz): white space, an optional sign and the longest prefix
\* of decimal digits; ok = FALSE stands for std::invalid_argument.
stol(str) ==
    LET t    == From(str, Span(str, {" "}) + 1)
        neg  == t # <<>> /\ Head(t) = "-"
        u    == IF t # <<>> /\ Head(t) \in {"+", "-"} THEN Tail(t) ELSE t
        nd   == Span(u, Digit)
    IN  IF nd > 0
        THEN [ok |-> TRUE, val |-> (IF neg THEN -1 ELSE 1) * DecValue(SubSeq(u, 1, nd))]
        ELSE [ok |-> FALSE, val |-> 0]

\* MCScriptT::to_Number: the exception of std::stod is caught and turned
\* into the result false.
to_Number(str) == stod(str)

\* boost::lexical_cast<std::string>(amount) for the numbers to_Number yields
lexical_cast(x) ==
    IF x.kind = "nan" THEN <<"n","a","n">>
    ELSE IF x.kind = "inf"
         THEN (IF x.num < 0 THEN <<"-">> ELSE <<>>) \o <<"i","n","f">>
    ELSE (IF x.num < 0 THEN <<"-">> ELSE <<>>)
         \o DecDigits(IF x.num < 0 THEN -x.num ELSE x.num)

(***************************************************************************)
(* Dates (ql/time/date.hpp): Date(d, m, y) accepts the years 1901..2199    *)
(* and a day of the month, and serialNumber() counts days, 1 January 1901  *)
(* being 367.                                                              *)
(***************************************************************************)
MonthNames == << <<"J","a","n">>, <<"F","e","b">>, <<"M","a","r">>, <<"A","p","r">>,
                 <<"M","a","y">>, <<"J","u","n">>, <<"J","u","l">>, <<"A","u","g">>,
                 <<"S","e","p">>, <<"O","c","t">>, <<"N","o","v">>, <<"D","e","c">> >>

IsLeap(y) == (y % 4 = 0 /\ y % 100 # 0) \/ y % 400 = 0

MonthLength(m, y) ==
    IF m = 2 THEN (IF IsLeap(y) THEN 29 ELSE 28)
    ELSE IF m \in {4, 6, 9, 11} THEN 30 ELSE 31

RECURSIVE MonthOffset(_, _)
MonthOffset(m, y) == IF m = 1 THEN 0 ELSE MonthOffset(m - 1, y) + MonthLength(m - 1, y)

LeapsBefore(y) == ((y - 1) \div 4) - ((y - 1) \div 100) + ((y - 1) \div 400)

YearOffset(y) == 366 + 365 * (y - 1901) + (LeapsBefore(y) - LeapsBefore(1901))

ValidDate(d, m, y) == y > 1900 /\ y < 2200 /\ d >= 1 /\ d <= MonthLength(m, y)

serialNumber(d, m, y) == d + MonthOffset(m, y) + YearOffset(y)

\* Settings::instance().evaluationDate(), as <<day, month, year>>
evaluationDate == <<1, 1, 2020>>

\* MCScriptT::date_to_Number: ddMMMyyyy to the year fraction from today.
\* Every exception (std::stol, the Date constructor) is caught and turned
\* into the result false.
date_to_Number(str) ==
    IF Len(str) # 9 THEN NoNumber
    ELSE LET day   == stol(Substr(str, 0, 2))
             year  == stol(Substr(str, 5, 4))
             s     == Substr(str, 2, 3)
             known == \E m \in 1..12 : MonthNames[m] = s
             month == CHOOSE m \in 1..12 : MonthNames[m] = s
             today == evaluationDate
         IN  IF ~day.ok \/ ~year.ok THEN NoNumber
             ELSE IF ~known THEN NoNumber
             ELSE IF ~ValidDate(day.val, month, year.val) THEN NoNumber
             ELSE [ok  |-> TRUE,
                   val |-> Fin(serialNumber(day.val, month, year.val)
                               - serialNumber(today[1], today[2], today[3]), 365)]

(***************************************************************************)
(* Expression trees (Scripting::Expression): a type, the child trees and   *)
(* the leaf strings.  NoTree is the null pointer.                          *)
(***************************************************************************)
Tree(type, childs, leafs) == [type |-> type, childs |-> childs, leafs |-> leafs]

NoTree == Tree("NoTree", <<>>, <<>>)

IsNull(tree) == tree.type = "NoTree"

(***************************************************************************)
(* Payoff nodes.  The heap is the sequence of the nodes allocated so far,  *)
(* a node's identity is its index and 0 is the null pointer.  args are the *)
(* nodes it references, num its number (amount, factor, pay time) and op   *)
(* its operator text.                                                      *)
(***************************************************************************)
Node(kind, args, num, op) == [kind |-> kind, args |-> args, num |-> num, op |-> op]

External == Node("External", <<>>, Fin(0, 1), <<>>)

FixedAmount(number) == Node("FixedAmount", <<>>, number, <<>>)

Axpy(a, x, y) == Node("Axpy", <<x, y>>, Fin(a, 1), <<>>)

Mult(x, y) == Node("Mult", <<x, y>>, Fin(0, 1), <<>>)

Division(x, y) == Node("Division", <<x, y>>, Fin(0, 1), <<>>)

IfThenElse(x, y, z) == Node("IfThenElse", <<x, y, z>>, Fin(0, 1), <<>>)

Min(x, y) == Node("Min", <<x, y>>, Fin(0, 1), <<>>)

Max(x, y) == Node("Max", <<x, y>>, Fin(0, 1), <<>>)

Logical(x, y, op) == Node("Logical", <<x, y>>, Fin(0, 1), op)

Pay(x, t) == Node("Pay", <<x>>, t, <<>>)

Cache(x) == Node("Cache", <<x>>, Fin(0, 1), <<>>)

\* MCPayoffT::at(t): the payoff observed at time t, a node of its own
PayoffAt(x, t) == Node("At", <<x>>, t, <<>>)

\* p->observationTime(), the observation time of node p
observationTimeOf(p) == [kind |-> "obs", num |-> p, den |-> 1]

(***************************************************************************)
(* Log entries.  "<tag> line <line>: <msg>" with the text the message      *)
(* carries.                                                                *)
(***************************************************************************)
Entry(tag, line, msg, arg) == [tag |-> tag, line |-> line, msg |-> msg, arg |-> arg]

\* the outcome of a compilation: a node, or a failure (ok = FALSE stands for
\* the exception of QL_FAIL or for a null result), with the heap and the log
\* it leaves
Done(node, h, lg) == [ok |-> TRUE, node |-> node, heap |-> h, log |-> lg]

Thrown(h, lg) == [ok |-> FALSE, node |-> 0, heap |-> h, log |-> lg]

\* new T(...) held by a shared_ptr
New(n, h, lg) == Done(Len(h) + 1, Append(h, n), lg)

\* hasChilds that lets a tree with more childs than expected pass
hasChildsAtLeast(tree, nArgs, lineNr, lg) ==
    IF IsNull(tree)
    THEN [ok |-> FALSE, log |-> Append(lg, Entry("Error", lineNr, "Empty expression tree", <<>>))]
    ELSE IF Len(tree.childs) < nArgs
    THEN [ok |-> FALSE,
          log |-> Append(lg, Entry("Error", lineNr, "child expressions expected",
                                   to_string(nArgs) \o <<",">> \o to_string(Len(tree.childs))))]
    ELSE [ok |-> TRUE, log |-> lg]

\* MCScriptT::hasChilds
hasChilds(tree, nArgs, lineNr, lg) ==
    IF IsNull(tree)
    THEN [ok |-> FALSE, log |-> Append(lg, Entry("Error", lineNr, "Empty expression tree", <<>>))]
    ELSE IF Len(tree.childs) # nArgs
    THEN [ok |-> FALSE,
          log |-> Append(lg, Entry("Error", lineNr, "child expressions expected",
                                   to_string(nArgs) \o <<",">> \o to_string(Len(tree.childs))))]
    ELSE [ok |-> TRUE, log |-> lg]

\* MCScriptT::hasLeafs (its message reports the number of childs)
hasLeafs(tree, nArgs, lineNr, lg) ==
    IF IsNull(tree)
    THEN [ok |-> FALSE, log |-> Append(lg, Entry("Error", lineNr, "Empty expression tree", <<>>))]
    ELSE IF Len(tree.leafs) # nArgs
    THEN [ok |-> FALSE,
          log |-> Append(lg, Entry("Error", lineNr, "leafs expected",
                                   to_string(nArgs) \o <<",">> \o to_string(Len(tree.childs))))]
    ELSE [ok |-> TRUE, log |-> lg]

\* the two checks every case of payoff(tree, k) starts with
hasShape(tree, nChilds, nLeafs, lineNr, lg) ==
    LET c == hasChilds(tree, nChilds, lineNr, lg)
    IN  IF ~c.ok THEN c ELSE hasLeafs(tree, nLeafs, lineNr, c.log)

Reverse(s) == [i \in 1..Len(s) |-> s[Len(s) + 1 - i]]

(***************************************************************************)
(* The expression compiler, MCScriptT::payoff(tree, k).  map is payoffs_,  *)
(* h the heap and lg the log when it is called.  The payoff(...) calls     *)
(* that are arguments of one constructor call are evaluated in an order    *)
(* the language leaves to the build: ord is that order.                    *)
(***************************************************************************)
ArgOrders == {"LeftToRight", "RightToLeft"}

RECURSIVE payoffTree(_, _, _, _, _, _)
RECURSIVE payoffArgs(_, _, _, _, _, _)

\* find that gives the null payoff for a name the map does not hold
findOrNull(map, name) ==
    IF name \in DOMAIN map THEN [found |-> TRUE, node |-> map[name]]
    ELSE [found |-> TRUE, node |-> 0]

\* payoffs_.find(name): the node bound to name, if there is one
find(map, name) ==
    IF name \in DOMAIN map THEN [found |-> TRUE, node |-> map[name]]
    ELSE [found |-> FALSE, node |-> 0]

\* identifier that allocates a copy of the node the map holds
identifierCopy(name, k, map, h, lg) ==
    IF find(map, name).found
    THEN New(h[find(map, name).node], h, Append(lg, Entry("Payoff", k, "is in map", name)))
    ELSE Thrown(h, Append(lg, Entry("Error", k, "is no payoff", name)))

\* identifier that fails on an unknown name without an entry of the log
identifierQuiet(name, k, map, h, lg) ==
    IF find(map, name).found
    THEN Done(find(map, name).node, h, Append(lg, Entry("Payoff", k, "is in map", name)))
    ELSE Thrown(h, lg)

\* the case IDENTIFIER, lines 215-223: the node the map holds, itself
identifier(name, k, map, h, lg) ==
    IF find(map, name).found
    THEN Done(find(map, name).node, h, Append(lg, Entry("Payoff", k, "is in map", name)))
    ELSE Thrown(h, Append(lg, Entry("Error", k, "is no payoff", name)))

\* the payoff(...) arguments of one call, args in the order they are
\* written: the nodes in that order, or the first failure met in the order
\* of evaluation
payoffEach(args, k, map, ord, h, lg) ==
    IF ord = "LeftToRight"
    THEN payoffArgs(args, k, map, ord, h, lg)
    ELSE LET r == payoffArgs(Reverse(args), k, map, ord, h, lg)
         IN  [r EXCEPT !.node = IF r.ok THEN Reverse(r.node) ELSE r.node]

payoffArgs(args, k, map, ord, h, lg) ==
    IF args = <<>> THEN Done(<<>>, h, lg)
    ELSE LET first == payoffTree(Head(args), k, map, ord, h, lg)
         IN  IF ~first.ok THEN first
             ELSE LET rest == payoffArgs(Tail(args), k, map, ord, first.heap, first.log)
                  IN  IF ~rest.ok THEN rest
                      ELSE Done(<<first.node>> \o rest.node, rest.heap, rest.log)

\* the cases PAY, PAY_WITHDATE, PAYOFFAT and PAYOFFAT_WITHDATE: the leaf is
\* converted before the child is compiled
payoffTimed(tree, k, map, ord, h, lg, number) ==
    IF ~number.ok
    THEN Thrown(h, Append(lg, Entry("Error", k, "cannot convert to number", tree.leafs[1])))
    ELSE LET p == payoffTree(tree.childs[1], k, map, ord, h, lg)
         IN  IF ~p.ok THEN p
             ELSE IF tree.type \in {"PAY", "PAY_WITHDATE"}
             THEN New(Pay(p.node, number.val), p.heap, p.log)
             ELSE IF p.node # 0
             THEN New(PayoffAt(p.node, number.val), p.heap, p.log)
             ELSE Thrown(p.heap, p.log)

\* the arity (childs, leafs) each case of the switch checks
Arity(type) ==
    CASE type \in {"NUMBER", "IDENTIFIER"} -> <<0, 1>>
      [] type \in {"UNARYPLUS", "UNARYMINUS", "CACHE"} -> <<1, 0>>
      [] type \in {"PLUS", "MINUS", "MULT", "DIVISION", "MIN", "MAX"} -> <<2, 0>>
      [] type = "IFTHENELSE" -> <<3, 0>>
      [] type = "LOGICAL" -> <<2, 1>>
      [] type \in {"PAY", "PAY_WITHDATE", "PAYOFFAT", "PAYOFFAT_WITHDATE"} -> <<1, 1>>

SwitchTypes == {"NUMBER", "IDENTIFIER", "UNARYPLUS", "UNARYMINUS", "CACHE",
                "PLUS", "MINUS", "MULT", "DIVISION", "MIN", "MAX", "IFTHENELSE",
                "LOGICAL", "PAY", "PAY_WITHDATE", "PAYOFFAT", "PAYOFFAT_WITHDATE"}

\* Compose with the branches of the conditional exchanged
ComposeExchanged(tree, a) ==
    CASE tree.type = "UNARYMINUS" -> Axpy(-1, a[1], 0)
      [] tree.type = "PLUS"       -> Axpy(1, a[1], a[2])
      [] tree.type = "MINUS"      -> Axpy(-1, a[1], a[2])
      [] tree.type = "MULT"       -> Mult(a[1], a[2])
      [] tree.type = "DIVISION"   -> Division(a[1], a[2])
      [] tree.type = "IFTHENELSE" -> IfThenElse(a[1], a[3], a[2])
      [] tree.type = "MIN"        -> Min(a[1], a[2])
      [] tree.type = "MAX"        -> Max(a[1], a[2])
      [] tree.type = "LOGICAL"    -> Logical(a[1], a[2], tree.leafs[1])
      [] tree.type = "CACHE"      -> Cache(a[1])

\* the node a case of the switch builds from the compiled arguments
Compose(tree, a) ==
    CASE tree.type = "UNARYMINUS" -> Axpy(-1, a[1], 0)
      [] tree.type = "PLUS"       -> Axpy(1, a[1], a[2])
      [] tree.type = "MINUS"      -> Axpy(-1, a[1], a[2])
      [] tree.type = "MULT"       -> Mult(a[1], a[2])
      [] tree.type = "DIVISION"   -> Division(a[1], a[2])
      [] tree.type = "IFTHENELSE" -> IfThenElse(a[1], a[2], a[3])
      [] tree.type = "MIN"        -> Min(a[1], a[2])
      [] tree.type = "MAX"        -> Max(a[1], a[2])
      [] tree.type = "LOGICAL"    -> Logical(a[1], a[2], tree.leafs[1])
      [] tree.type = "CACHE"      -> Cache(a[1])

\* CallArgs that passes the childs of MINUS in their own order
CallArgsInOrder(tree) == tree.childs

\* the child trees in the order the case passes them to the constructor:
\* MINUS builds Axpy(-1.0, payoff(childs[1]), payoff(childs[0]))
CallArgs(tree) ==
    IF tree.type = "MINUS" THEN <<tree.childs[2], tree.childs[1]>> ELSE tree.childs

\* payoffTree with a case for an assignment: the value of its right side
payoffTreeNested(tree, k, map, ord, h, lg) ==
    IF tree.type = "ASSIGNMENT" /\ tree.childs # <<>>
    THEN payoffTree(tree.childs[1], k, map, ord, h, lg)
    ELSE
    IF IsNull(tree)
    THEN Thrown(h, Append(lg, Entry("Error", k, "Empty expression tree", <<>>)))
    ELSE IF tree.type \notin SwitchTypes
    THEN Thrown(h, Append(lg, Entry("Error", k, "unknown expression type", <<>>)))
    ELSE
    LET shape == hasShape(tree, Arity(tree.type)[1], Arity(tree.type)[2], k, lg)
    IN  IF ~shape.ok THEN Thrown(h, shape.log)
        ELSE CASE tree.type = "NUMBER" ->
                   LET number == to_Number(tree.leafs[1])
                   IN  IF number.ok THEN New(FixedAmount(number.val), h, lg)
                       ELSE Thrown(h, Append(lg, Entry("Error", k, "cannot convert to number",
                                                       tree.leafs[1])))
               [] tree.type = "IDENTIFIER" -> identifier(tree.leafs[1], k, map, h, lg)
               [] tree.type = "UNARYPLUS" ->
                   payoffTree(tree.childs[1], k, map, ord, h, lg)
               [] tree.type \in {"PAY", "PAYOFFAT"} ->
                   payoffTimed(tree, k, map, ord, h, lg, to_Number(tree.leafs[1]))
               [] tree.type \in {"PAY_WITHDATE", "PAYOFFAT_WITHDATE"} ->
                   payoffTimed(tree, k, map, ord, h, lg, date_to_Number(tree.leafs[1]))
               [] OTHER ->
                   LET a == payoffEach(CallArgs(tree), k, map, ord, h, lg)
                   IN  IF ~a.ok THEN a
                       ELSE New(Compose(tree, a.node), a.heap, a.log)

\* MCScriptT::payoff(tree, k), lines 193-331
payoffTree(tree, k, map, ord, h, lg) ==
    IF IsNull(tree)
    THEN Thrown(h, Append(lg, Entry("Error", k, "Empty expression tree", <<>>)))
    ELSE IF tree.type \notin SwitchTypes
    THEN Thrown(h, Append(lg, Entry("Error", k, "unknown expression type", <<>>)))
    ELSE
    LET shape == hasShape(tree, Arity(tree.type)[1], Arity(tree.type)[2], k, lg)
    IN  IF ~shape.ok THEN Thrown(h, shape.log)
        ELSE CASE tree.type = "NUMBER" ->
                   LET number == to_Number(tree.leafs[1])
                   IN  IF number.ok THEN New(FixedAmount(number.val), h, lg)
                       ELSE Thrown(h, Append(lg, Entry("Error", k, "cannot convert to number",
                                                       tree.leafs[1])))
               [] tree.type = "IDENTIFIER" -> identifier(tree.leafs[1], k, map, h, lg)
               [] tree.type = "UNARYPLUS" ->
                   payoffTree(tree.childs[1], k, map, ord, h, lg)
               [] tree.type \in {"PAY", "PAYOFFAT"} ->
                   payoffTimed(tree, k, map, ord, h, lg, to_Number(tree.leafs[1]))
               [] tree.type \in {"PAY_WITHDATE", "PAYOFFAT_WITHDATE"} ->
                   payoffTimed(tree, k, map, ord, h, lg, date_to_Number(tree.leafs[1]))
               [] OTHER ->
                   LET a == payoffEach(CallArgs(tree), k, map, ord, h, lg)
                   IN  IF ~a.ok THEN a
                       ELSE New(Compose(tree, a.node), a.heap, a.log)

(***************************************************************************)
(* The regular expressions of parseScript.  boost::regex_match matches the *)
(* whole text; a group (.+) is greedy and the alternatives of a group are  *)
(* tried in the order they are written.                                    *)
(***************************************************************************)
NoMatch == [ok |-> FALSE, what |-> <<>>]

Match(groups) == [ok |-> TRUE, what |-> groups]

\* boost::regex_replace(text, regex(" "), "")
RemoveSpaces(text) == SelectSeq(text, LAMBDA c : c # " ")

\* ([a-zA-Z][a-zA-Z0-9]*)(=)(.+)
MatchAssignment(line) ==
    LET nv == Span(line, AlNum)
    IN  IF /\ nv >= 1
           /\ line[1] \in Letter
           /\ Len(line) >= nv + 2
           /\ line[nv + 1] = "="
        THEN Match(<<SubSeq(line, 1, nv), <<"=">>, From(line, nv + 2)>>)
        ELSE NoMatch

\* (\+|-)(.+)
MatchOperator1(expr) ==
    IF Len(expr) >= 2 /\ expr[1] \in {"+", "-"}
    THEN Match(<<SubSeq(expr, 1, 1), From(expr, 2)>>)
    ELSE NoMatch

\* the alternatives of the operator group of operator2's expression
OperatorAlternatives ==
    << <<"+">>, <<"-">>, <<"*">>, <<"=","=">>, <<"!","=">>, <<"<","=">>, <<"<">>,
       <<">","=">>, <<">">>, <<"&","&">>, <<"|","|">> >>

\* alternative j matches after the first i characters and leaves a rest
OperatorAt(expr, i, j) ==
    /\ StartsWith(From(expr, i + 1), OperatorAlternatives[j])
    /\ Len(expr) - i - Len(OperatorAlternatives[j]) >= 1

\* (.+)(\+|-|\*|==|!=|<=|<|>=|>|&&|\|\|)(.+)
MatchOperator2(expr) ==
    LET alts == 1..Len(OperatorAlternatives)
        cuts == {i \in 1..Len(expr) : \E j \in alts : OperatorAt(expr, i, j)}
    IN  IF cuts = {} THEN NoMatch
        ELSE LET i  == CHOOSE c \in cuts : \A c2 \in cuts : c2 <= c
                 j  == CHOOSE a \in alts :
                          /\ OperatorAt(expr, i, a)
                          /\ \A a2 \in alts : OperatorAt(expr, i, a2) => a <= a2
                 op == OperatorAlternatives[j]
             IN  Match(<<SubSeq(expr, 1, i), op, From(expr, i + Len(op) + 1)>>)

\* the positions of the commas of a text
Commas(text) == {i \in 1..Len(text) : text[i] = ","}

Largest(S) == CHOOSE x \in S : \A y \in S : y <= x

\* ([a-zA-Z]+)\( ... \) : the name and the text between the parentheses
MatchCall(expr) ==
    LET nf == Span(expr, Letter)
    IN  IF /\ nf >= 1
           /\ Len(expr) >= nf + 3
           /\ expr[nf + 1] = "("
           /\ expr[Len(expr)] = ")"
        THEN Match(<<SubSeq(expr, 1, nf), SubSeq(expr, nf + 2, Len(expr) - 1)>>)
        ELSE NoMatch

\* ([a-zA-Z]+)\((.+),(.+),(.+)\)
MatchFunction3(expr) ==
    LET c == MatchCall(expr)
    IN  IF ~c.ok THEN NoMatch
        ELSE LET in    == c.what[2]
                 seconds(i) == {j \in Commas(in) : j >= i + 2 /\ j <= Len(in) - 1}
                 firsts == {i \in Commas(in) : i >= 2 /\ seconds(i) # {}}
             IN  IF firsts = {} THEN NoMatch
                 ELSE LET i == Largest(firsts)
                          j == Largest(seconds(i))
                      IN  Match(<<c.what[1], SubSeq(in, 1, i - 1),
                                  SubSeq(in, i + 1, j - 1), From(in, j + 1)>>)

\* ([a-zA-Z]+)\((.+),(.+)\)
MatchFunction2(expr) ==
    LET c == MatchCall(expr)
    IN  IF ~c.ok THEN NoMatch
        ELSE LET in   == c.what[2]
                 cuts == {i \in Commas(in) : i >= 2 /\ i <= Len(in) - 1}
             IN  IF cuts = {} THEN NoMatch
                 ELSE LET i == Largest(cuts)
                      IN  Match(<<c.what[1], SubSeq(in, 1, i - 1), From(in, i + 1)>>)

\* ([a-zA-Z]+)\((.+)\)
MatchFunction1(expr) == MatchCall(expr)

(***************************************************************************)
(* The operands, functions and operators of the non-recursive grammar.  A  *)
(* null result is an outcome with ok = FALSE.                              *)
(***************************************************************************)
\* MCScriptT::payoff(expr, lineNr): a fixed amount, or a lookup in the map
payoffString(expr, lineNr, map, h, lg) ==
    LET amount == to_Number(expr)
    IN  IF amount.ok
        THEN New(FixedAmount(amount.val), h,
                 Append(lg, Entry("Payoff", lineNr, "is fixed amount", lexical_cast(amount.val))))
        ELSE IF find(map, expr).found
        THEN Done(find(map, expr).node, h, Append(lg, Entry("Payoff", lineNr, "is in map", expr)))
        ELSE Thrown(h, Append(lg, Entry("Error", lineNr, "is no payoff", expr)))

\* the operands of a function or operator, compiled from left to right; the
\* first one that is no payoff ends the call with its own log entry
RECURSIVE operands(_, _, _, _, _)
operands(opers, lineNr, map, h, lg) ==
    IF opers = <<>> THEN Done(<<>>, h, lg)
    ELSE LET p == payoffString(Head(opers), lineNr, map, h, lg)
         IN  IF ~p.ok
             THEN Thrown(p.heap, Append(p.log, Entry("Error", lineNr, "is no valid operand",
                                                     Head(opers))))
             ELSE LET rest == operands(Tail(opers), lineNr, map, p.heap, p.log)
                  IN  IF ~rest.ok THEN rest
                      ELSE Done(<<p.node>> \o rest.node, rest.heap, rest.log)

sCache == <<"C","a","c","h","e">>

sMin == <<"M","i","n">>

sMax == <<"M","a","x">>

sPay == <<"P","a","y">>

sIfThenElse == <<"I","f","T","h","e","n","E","l","s","e">>

\* function1 once its operand is compiled (p)
function1Node(fname, p, lineNr) ==
    IF ~p.ok THEN p
    ELSE IF fname = sCache THEN New(Cache(p.node[1]), p.heap, p.log)
    ELSE Thrown(p.heap, Append(p.log, Entry("Error", lineNr,
                                            "is no valid unary function name", fname)))

\* MCScriptT::function1
function1(fname, operand, lineNr, map, h, lg) ==
    function1Node(fname, operands(<<operand>>, lineNr, map, h, lg), lineNr)

\* function2 once its operands are compiled (p); t is to_Number(oper2, t)
function2Node(fname, p, t, lineNr) ==
    IF ~p.ok THEN p
    ELSE IF fname = sMin THEN New(Min(p.node[1], p.node[2]), p.heap, p.log)
    ELSE IF fname = sMax THEN New(Max(p.node[1], p.node[2]), p.heap, p.log)
    ELSE IF fname = sPay
    THEN (IF t.ok THEN New(Pay(p.node[1], t.val), p.heap, p.log)
          ELSE New(Pay(p.node[1], observationTimeOf(p.node[2])), p.heap, p.log))
    ELSE Thrown(p.heap, Append(p.log, Entry("Error", lineNr,
                                            "is no valid binary function name", fname)))

\* MCScriptT::function2
function2(fname, oper1, oper2, lineNr, map, h, lg) ==
    function2Node(fname, operands(<<oper1, oper2>>, lineNr, map, h, lg),
                  to_Number(oper2), lineNr)

\* function3 once its operands are compiled (p)
function3Node(fname, p, lineNr) ==
    IF ~p.ok THEN p
    ELSE IF fname = sIfThenElse
    THEN New(IfThenElse(p.node[1], p.node[2], p.node[3]), p.heap, p.log)
    ELSE Thrown(p.heap, Append(p.log, Entry("Error", lineNr,
                                            "is no valid function name", fname)))

\* MCScriptT::function3
function3(fname, oper1, oper2, oper3, lineNr, map, h, lg) ==
    function3Node(fname, operands(<<oper1, oper2, oper3>>, lineNr, map, h, lg), lineNr)

\* operator1 once its operand is compiled (p)
operator1Node(opname, p, lineNr) ==
    IF ~p.ok THEN p
    ELSE IF opname = <<"+">> THEN Done(p.node[1], p.heap, p.log)
    ELSE IF opname = <<"-">> THEN New(Axpy(-1, p.node[1], 0), p.heap, p.log)
    ELSE Thrown(p.heap, Append(p.log, Entry("Error", lineNr,
                                            "is no valid unary operator name", opname)))

\* MCScriptT::operator1
operator1(opname, operand, lineNr, map, h, lg) ==
    operator1Node(opname, operands(<<operand>>, lineNr, map, h, lg), lineNr)

\* ==|!=|<|<=|>|>=|&&|\|\|
LogicalNames == { <<"=","=">>, <<"!","=">>, <<"<">>, <<"<","=">>, <<">">>, <<">","=">>,
                  <<"&","&">>, <<"|","|">> }

\* operator2 once its operands are compiled (p)
operator2Node(opname, p, lineNr) ==
    IF ~p.ok THEN p
    ELSE IF opname = <<"+">> THEN New(Axpy(1, p.node[1], p.node[2]), p.heap, p.log)
    ELSE IF opname = <<"-">> THEN New(Axpy(-1, p.node[2], p.node[1]), p.heap, p.log)
    ELSE IF opname = <<"*">> THEN New(Mult(p.node[1], p.node[2]), p.heap, p.log)
    ELSE IF opname \in LogicalNames
    THEN New(Logical(p.node[1], p.node[2], opname), p.heap, p.log)
    ELSE Thrown(p.heap, Append(p.log, Entry("Error", lineNr,
                                            "is no valid binary operator name", opname)))

\* MCScriptT::operator2
operator2(opname, oper1, oper2, lineNr, map, h, lg) ==
    operator2Node(opname, operands(<<oper1, oper2>>, lineNr, map, h, lg), lineNr)

\* parseScript, lines 432-447, given what each expression matched: the first
\* expression that matches decides how the line's expression is compiled
exprMatched(o1, o2, f3, f2, f1, expr, lineNr, map, h, lg) ==
    IF o1.ok THEN operator1(o1.what[1], o1.what[2], lineNr, map, h, lg)
    ELSE IF o2.ok
    THEN operator2(o2.what[2], o2.what[1], o2.what[3], lineNr, map, h, lg)
    ELSE IF f3.ok
    THEN function3(f3.what[1], f3.what[2], f3.what[3], f3.what[4], lineNr, map, h, lg)
    ELSE IF f2.ok THEN function2(f2.what[1], f2.what[2], f2.what[3], lineNr, map, h, lg)
    ELSE IF f1.ok THEN function1(f1.what[1], f1.what[2], lineNr, map, h, lg)
    ELSE payoffString(expr, lineNr, map, h, lg)

\* parseScript, lines 432-447: the expression of a line
exprLegacy(expr, lineNr, map, h, lg) ==
    exprMatched(MatchOperator1(expr), MatchOperator2(expr), MatchFunction3(expr),
                MatchFunction2(expr), MatchFunction1(expr), expr, lineNr, map, h, lg)

(***************************************************************************)
(* One line of a script.  In parseFlexBisonScript it is parsed by          *)
(* Scripting::FlexBisonDriver, whose result (returnValue, expressionTree)  *)
(* belongs to the line's text: a line of the model is a text with the      *)
(* result the driver gives for it.  parseScript reads the text alone.      *)
(***************************************************************************)
Line(text, returnValue, expressionTree) ==
    [text |-> text, returnValue |-> returnValue, expressionTree |-> expressionTree]

\* the outcome of one line: the map, the heap, the log and the expressions
\* it leaves, whether an exception left the loop, and the locals var and p
\* of the loop's body (p = 0: no payoff)
Outcome(map, h, lg, exprs, var, p) ==
    [map |-> map, heap |-> h, log |-> lg, expressions |-> exprs, escaped |-> FALSE,
     var |-> var, p |-> p]

\* Put that leaves a map of the one key
PutAlone(map, key, p) == [x \in {key} |-> p]

\* std::map::insert and the assignment through an iterator
Put(map, key, p) == [x \in DOMAIN map \cup {key} |-> IF x = key THEN p ELSE map[x]]

\* storeFlexBison with std::map::insert in place of the assignment through
\* the iterator: a name that is bound keeps its payoff
storeFlexBisonInsertOnly(var, p, k, text, map, overwrite, lg) ==
    IF var \notin DOMAIN map
    THEN [map |-> Put(map, var, p), log |-> Append(lg, Entry("Insert", k, "line", text))]
    ELSE IF overwrite
    THEN [map |-> map, log |-> Append(lg, Entry("Replace", k, "line", text))]
    ELSE [map |-> map, log |-> Append(lg, Entry("Error", k, "Cannot replace line", text))]

\* storeFlexBison that replaces a binding without an entry in the log
storeFlexBisonUnlogged(var, p, k, text, map, overwrite, lg) ==
    IF var \notin DOMAIN map
    THEN [map |-> Put(map, var, p), log |-> Append(lg, Entry("Insert", k, "line", text))]
    ELSE IF overwrite
    THEN [map |-> Put(map, var, p), log |-> lg]
    ELSE [map |-> map, log |-> Append(lg, Entry("Error", k, "Cannot replace line", text))]

\* parseFlexBisonScript, lines 370-382: store the payoff in the map
storeFlexBison(var, p, k, text, map, overwrite, lg) ==
    IF var \notin DOMAIN map
    THEN [map |-> Put(map, var, p), log |-> Append(lg, Entry("Insert", k, "line", text))]
    ELSE IF overwrite
    THEN [map |-> Put(map, var, p), log |-> Append(lg, Entry("Replace", k, "line", text))]
    ELSE [map |-> map, log |-> Append(lg, Entry("Error", k, "Cannot replace line", text))]

\* caught that leaves the entry for the exception alone in the log
caughtAlone(p, k) ==
    IF p.ok THEN p
    ELSE Thrown(p.heap, <<Entry("Error", k, "Exception caught", <<>>)>>)

\* the handler of the try block: it logs the exception
caught(p, k) ==
    IF p.ok THEN p
    ELSE Thrown(p.heap, Append(p.log, Entry("Error", k, "Exception caught", <<>>)))

\* tryPayoff with a second handler around the first
tryPayoffTwice(tree, k, map, ord, h, lg) ==
    caught(caught(payoffTree(tree, k, map, ord, h, lg), k), k)

\* parseFlexBisonScript, lines 352-359: the right side is compiled inside the
\* try block, whose handler logs the exception and moves to the next line
tryPayoff(tree, k, map, ord, h, lg) == caught(payoffTree(tree, k, map, ord, h, lg), k)

\* afterPayoff without the try block: an exception of the compiler leaves
\* the loop and the constructor
afterPayoffEscapes(p, var, k, text, map, overwrite, ex) ==
    IF ~p.ok THEN [Outcome(map, p.heap, p.log, ex, <<>>, 0) EXCEPT !.escaped = TRUE]
    ELSE IF p.node = 0
    THEN Outcome(map, p.heap, Append(p.log, Entry("Error", k, "No payoff found", <<>>)),
                 ex, <<>>, 0)
    ELSE IF var = <<>>
    THEN Outcome(map, p.heap,
                 Append(p.log, Entry("Error", k, "Non-empty identifier expected", <<>>)),
                 ex, var, p.node)
    ELSE Outcome(storeFlexBison(var, p.node, k, text, map, overwrite, p.log).map, p.heap,
                 storeFlexBison(var, p.node, k, text, map, overwrite, p.log).log,
                 ex, var, p.node)

\* parseFlexBisonScript, lines 360-382, for the outcome p of tryPayoff
afterPayoff(p, var, k, text, map, overwrite, ex) ==
    IF ~p.ok THEN Outcome(map, p.heap, p.log, ex, <<>>, 0)
    ELSE IF p.node = 0
    THEN Outcome(map, p.heap, Append(p.log, Entry("Error", k, "No payoff found", <<>>)),
                 ex, <<>>, 0)
    ELSE IF var = <<>>
    THEN Outcome(map, p.heap,
                 Append(p.log, Entry("Error", k, "Non-empty identifier expected", <<>>)),
                 ex, var, p.node)
    ELSE LET st == storeFlexBison(var, p.node, k, text, map, overwrite, p.log)
         IN  Outcome(st.map, p.heap, st.log, ex, var, p.node)

\* recorded for the trees that are assignments only
recordedAssignments(tree, k, exprs) ==
    IF tree.type # "ASSIGNMENT" THEN exprs ELSE Append(exprs, [line |-> k, tree |-> tree])

\* recorded without the test for a tree
recordedAlways(tree, k, exprs) == Append(exprs, [line |-> k, tree |-> tree])

\* line 339: the tree's text is recorded whenever there is a tree
recorded(tree, k, exprs) ==
    IF IsNull(tree) THEN exprs ELSE Append(exprs, [line |-> k, tree |-> tree])

\* parseFlexBisonScript, lines 340-387, for the driver's result
afterDriver(line, tree, k, map, overwrite, ord, h, lg, ex) ==
    IF line.returnValue # 0
    THEN Outcome(map, h, Append(lg, Entry("Error", k, "errorMsg", line.text)), ex, <<>>, 0)
    ELSE IF IsNull(tree)
    THEN Outcome(map, h, Append(lg, Entry("Error", k, "Empty expression tree", <<>>)),
                 ex, <<>>, 0)
    ELSE IF tree.type # "ASSIGNMENT"
    THEN Outcome(map, h, Append(lg, Entry("Error", k, "Assignment expected", <<>>)),
                 ex, <<>>, 0)
    ELSE IF ~hasShape(tree, 1, 1, k, lg).ok
    THEN Outcome(map, h, hasShape(tree, 1, 1, k, lg).log, ex, <<>>, 0)
    ELSE afterPayoff(tryPayoff(tree.childs[1], k, map, ord, h, lg),
                     tree.leafs[1], k, line.text, map, overwrite, ex)

\* the body of the loop of parseFlexBisonScript for line k
lineFlexBison(line, k, map, overwrite, ord, h, lg, exprs) ==
    afterDriver(line, line.expressionTree, k, map, overwrite, ord, h, lg,
                recorded(line.expressionTree, k, exprs))

\* storeScript without the test of overwrite: a bound name is replaced
storeScriptOverwrites(var, p, k, line, map, overwrite, lg) ==
    IF var \notin DOMAIN map
    THEN [map |-> Put(map, var, p), log |-> Append(lg, Entry("Insert", k, "line", line))]
    ELSE [map |-> Put(map, var, p), log |-> Append(lg, Entry("Replace", k, "line", line))]

\* parseScript, lines 454-467: store the payoff in the map
storeScript(var, p, k, line, map, overwrite, lg) ==
    IF var \notin DOMAIN map
    THEN [map |-> Put(map, var, p), log |-> Append(lg, Entry("Insert", k, "line", line))]
    ELSE IF overwrite
    THEN [map |-> Put(map, var, p), log |-> Append(lg, Entry("Replace", k, "line", line))]
    ELSE [map |-> map, log |-> Append(lg, Entry("Error", k, "can not be replaced", var))]

\* afterExpr with the map written before the test of p: a line whose
\* expression is not valid binds its name to the null payoff
afterExprStoresNull(p, var, expr, k, line, map, overwrite, exprs) ==
    IF ~p.ok
    THEN Outcome(Put(map, var, 0), p.heap,
                 Append(p.log, Entry("Error", k, "is no valid expression", expr)),
                 exprs, var, 0)
    ELSE Outcome(storeScript(var, p.node, k, line, map, overwrite, p.log).map, p.heap,
                 storeScript(var, p.node, k, line, map, overwrite, p.log).log,
                 exprs, var, p.node)

\* parseScript, lines 449-467, for the outcome p of the line's expression
afterExpr(p, var, expr, k, line, map, overwrite, exprs) ==
    IF ~p.ok
    THEN Outcome(map, p.heap,
                 Append(p.log, Entry("Error", k, "is no valid expression", expr)),
                 exprs, var, 0)
    ELSE LET st == storeScript(var, p.node, k, line, map, overwrite, p.log)
         IN  Outcome(st.map, p.heap, st.log, exprs, var, p.node)

\* parseScript, lines 423-467, for the line without its spaces
afterAssignment(line, isAssignment, k, map, overwrite, h, lg, exprs) ==
    IF ~isAssignment.ok
    THEN Outcome(map, h, Append(lg, Entry("Error", k, "is no valid assignment", line)),
                 exprs, <<>>, 0)
    ELSE afterExpr(exprLegacy(isAssignment.what[3], k, map, h, lg),
                   isAssignment.what[1], isAssignment.what[3], k, line, map, overwrite, exprs)

\* the body of the loop of parseScript for line k
lineScript(text, k, map, overwrite, h, lg, exprs) ==
    afterAssignment(RemoveSpaces(text), MatchAssignment(RemoveSpaces(text)),
                    k, map, overwrite, h, lg, exprs)

\* the help text parseScript logs for an empty script
HelpText == [i \in 1..21 |-> Entry("Help", i, "grammar", <<>>)]

(***************************************************************************)
(* The inputs of the constructor: the names and texts of the model         *)
(***************************************************************************)
\* the largest number of initial keys, and of initial payoffs
MaxKeys == 2

\* the largest number of lines of a script, the line "NonRecursive" that
\* selects parseScript not counted
MaxLines == 2

sA == <<"a">>

sX == <<"x">>

sPayoff == <<"p","a","y","o","f","f">>

sNonRecursive == <<"N","o","n","R","e","c","u","r","s","i","v","e">>

Number(text) == Tree("NUMBER", <<>>, <<text>>)

Identifier(name) == Tree("IDENTIFIER", <<>>, <<name>>)

Binary(type, left, right) == Tree(type, <<left, right>>, <<>>)

Assignment(var, tree) == Tree("ASSIGNMENT", <<tree>>, <<var>>)

\* the names of the initial bindings
KeyNames == {sA, sPayoff}

\* the names the lines assign to
Targets == {sA, sX, sPayoff}

\* right sides, each with the tree the driver gives for it: 1, x, a+a, a-x
RightSides ==
    { [text |-> <<"1">>, tree |-> Number(<<"1">>)],
      [text |-> sX, tree |-> Identifier(sX)],
      [text |-> <<"a","+","a">>, tree |-> Binary("PLUS", Identifier(sA), Identifier(sA))],
      [text |-> <<"a","-","x">>, tree |-> Binary("MINUS", Identifier(sA), Identifier(sX))] }

\* the lines var = right side
Statements ==
    { Line(var \o <<"=">> \o r.text, 0, Assignment(var, r.tree)) : var \in Targets, r \in RightSides }

\* lines the loop rejects before it compiles anything: a text the driver
\* fails on, a text it gives no tree for, an expression that is no
\* assignment, an assignment with two childs, an assignment to the empty name
OtherLines ==
    { Line(<<"a","=">>, 1, NoTree),
      Line(<<>>, 0, NoTree),
      Line(sA, 0, Identifier(sA)),
      Line(<<"a","=","1",",","1">>, 0, Tree("ASSIGNMENT", <<Number(<<"1">>), Number(<<"1">>)>>, <<sA>>)),
      Line(<<"=","1">>, 0, Assignment(<<>>, Number(<<"1">>))) }

Lines == Statements \cup OtherLines

SentinelLine == Line(sNonRecursive, 0, Identifier(sNonRecursive))

KeyLists == UNION {[1..n -> KeyNames] : n \in 0..MaxKeys}

(***************************************************************************)
(* The state: the constructor's arguments, the object's fields, the heap   *)
(* of payoff nodes and the place the constructor has reached.  A script    *)
(* line is supplied when the constructor first reads it: script holds the  *)
(* lines read so far and nLines is script.size().  compiled records, for   *)
(* each line the loop has processed, the locals var and p its body ended   *)
(* with: the name the line assigns to and the payoff its right side        *)
(* compiled to (0: none).  call is the last call of the query interface   *)
(* of the constructed object, with what it returned.                       *)
(***************************************************************************)
VARIABLES keys, payoffs, script, nLines, overwrite,
          payoffs_, expressions_, scriptLog_, result_,
          heap, pc, k, compiled, call

vars == <<keys, payoffs, script, nLines, overwrite,
          payoffs_, expressions_, scriptLog_, result_, heap, pc, k, compiled, call>>

inputs == <<keys, payoffs, nLines, overwrite>>

EmptyMap == [x \in {} |-> 0]

\* no call of the query interface yet
NoCall == [op |-> "none"]

Init ==
    /\ keys \in KeyLists
    /\ \E np \in 0..MaxKeys :
          /\ payoffs = [i \in 1..np |-> i]
          /\ heap = [i \in 1..np |-> External]
    /\ nLines \in 0..(MaxLines + 1)
    /\ overwrite \in BOOLEAN
    /\ script = <<>>
    /\ payoffs_ = EmptyMap
    /\ expressions_ = <<>>
    /\ scriptLog_ = <<>>
    /\ result_ = 0
    /\ pc = "Construct"
    /\ k = 0
    /\ compiled = <<>>
    /\ call = NoCall

\* line 43: QL_REQUIRE(keys.size()==payoffs.size(), ...)
CheckSizes ==
    /\ pc = "Construct"
    /\ pc' = IF Len(keys) = Len(payoffs) THEN "InitMap" ELSE "Failed"
    /\ UNCHANGED <<inputs, call, script, payoffs_, expressions_, scriptLog_, result_, heap, k, compiled>>

\* initBinding that never replaces: with overwrite a repeated key keeps its
\* first payoff
initBindingKeepsFirst(key, p, map, ow) ==
    IF key \notin DOMAIN map THEN [ok |-> TRUE, map |-> Put(map, key, p)]
    ELSE IF ow THEN [ok |-> TRUE, map |-> map]
    ELSE [ok |-> FALSE, map |-> map]

\* lines 45-51: one initial binding
initBinding(key, p, map, ow) ==
    IF key \notin DOMAIN map THEN [ok |-> TRUE, map |-> Put(map, key, p)]
    ELSE IF ow THEN [ok |-> TRUE, map |-> Put(map, key, p)]
    ELSE [ok |-> FALSE, map |-> map]

\* lines 44-52: the loop that initialises the map
InitMap ==
    /\ pc = "InitMap"
    /\ k < Len(keys)
    /\ LET b == initBinding(keys[k + 1], payoffs[k + 1], payoffs_, overwrite)
       IN  /\ payoffs_' = b.map
           /\ pc' = IF b.ok THEN "InitMap" ELSE "Failed"
           /\ k' = IF b.ok THEN k + 1 ELSE k
    /\ UNCHANGED <<inputs, call, script, expressions_, scriptLog_, result_, heap, compiled>>

\* the lines a script can start with: a script of MaxLines + 1 lines is one
\* that starts with "NonRecursive"
FirstLines == IF nLines > MaxLines THEN {SentinelLine} ELSE Lines \cup {SentinelLine}

\* isNonRecursive that compares without spaces and without case
isNonRecursiveLoose(lines) ==
    Len(lines) > 0 /\ LowerStr(RemoveSpaces(lines[1].text)) = LowerStr(sNonRecursive)

\* lines 53-57: the first line selects the grammar
isNonRecursive(lines) == Len(lines) > 0 /\ lines[1].text = sNonRecursive

SelectGrammar ==
    /\ pc = "InitMap"
    /\ k = Len(keys)
    /\ \E first \in (IF nLines = 0 THEN {<<>>}
                     ELSE IF script # <<>> THEN {script}
                     ELSE {<<l>> : l \in FirstLines}) :
          /\ script' = first
          /\ pc' = IF isNonRecursive(first) THEN "parseScript" ELSE "parseFlexBisonScript"
    /\ k' = 0
    /\ UNCHANGED <<inputs, call, payoffs_, expressions_, scriptLog_, result_, heap, compiled>>

\* script[k], supplied now unless it was read before
Supplied == IF k < Len(script) THEN {script[k + 1]} ELSE Lines

\* Apply that, when a line binds a bound name again, copies the new node
\* into the node the name was bound to
ApplyInPlace(line, out) ==
    /\ script' = IF k < Len(script) THEN script ELSE Append(script, line)
    /\ payoffs_' = out.map
    /\ heap' = IF out.var \in DOMAIN payoffs_ /\ out.map # payoffs_
               THEN [out.heap EXCEPT ![payoffs_[out.var]] = out.heap[out.p]]
               ELSE out.heap
    /\ scriptLog_' = out.log
    /\ expressions_' = out.expressions
    /\ pc' = IF out.escaped THEN "Failed" ELSE pc
    /\ k' = IF out.escaped THEN k ELSE k + 1
    /\ compiled' = Append(compiled, [var |-> out.var, p |-> out.p])
    /\ UNCHANGED <<inputs, call, result_>>

\* the state after the body of a loop for line k, or after an exception
\* that leaves the constructor
Apply(line, out) ==
    /\ script' = IF k < Len(script) THEN script ELSE Append(script, line)
    /\ payoffs_' = out.map
    /\ heap' = out.heap
    /\ scriptLog_' = out.log
    /\ expressions_' = out.expressions
    /\ pc' = IF out.escaped THEN "Failed" ELSE pc
    /\ k' = IF out.escaped THEN k ELSE k + 1
    /\ compiled' = Append(compiled, [var |-> out.var, p |-> out.p])
    /\ UNCHANGED <<inputs, call, result_>>

\* lines 336-388: one iteration of the loop of parseFlexBisonScript
FlexBisonLine ==
    /\ pc = "parseFlexBisonScript"
    /\ k < nLines
    /\ \E line \in Supplied, ord \in ArgOrders :
          Apply(line, lineFlexBison(line, k, payoffs_, overwrite, ord, heap,
                                    scriptLog_, expressions_))

\* line 389: parseFlexBisonScript returns
FlexBisonReturn ==
    /\ pc = "parseFlexBisonScript"
    /\ k = nLines
    /\ pc' = "Result"
    /\ UNCHANGED <<inputs, call, script, payoffs_, expressions_, scriptLog_, result_, heap, k, compiled>>

\* lines 419-468: one iteration of the loop of parseScript
ScriptLine ==
    /\ pc = "parseScript"
    /\ k < nLines
    /\ \E line \in Supplied :
          Apply(line, lineScript(line.text, k, payoffs_, overwrite, heap,
                                 scriptLog_, expressions_))

\* lines 469-492: parseScript returns, after the help text for an empty script
ScriptReturn ==
    /\ pc = "parseScript"
    /\ k = nLines
    /\ scriptLog_' = IF nLines = 0 THEN scriptLog_ \o HelpText ELSE scriptLog_
    /\ pc' = "Result"
    /\ UNCHANGED <<inputs, call, script, payoffs_, expressions_, result_, heap, k, compiled>>

\* payoffs_.rbegin()->first: the largest key of the map
LastKey(map) == CHOOSE x \in DOMAIN map : \A y \in DOMAIN map : y = x \/ StrLess(y, x)

\* resultOf without the search for "payoff": line 59 alone
resultOfLast(map) == map[LastKey(map)]

\* lines 59-64: the payoff named "payoff", or else the last element of the map
resultOf(map) ==
    IF sPayoff \in DOMAIN map THEN map[sPayoff] ELSE map[LastKey(map)]

\* SelectResult without the test of line 58
SelectResultUnchecked ==
    /\ pc = "Result"
    /\ pc' = "Constructed"
    /\ result_' = IF DOMAIN payoffs_ = {} THEN 0 ELSE resultOf(payoffs_)
    /\ UNCHANGED <<inputs, call, script, payoffs_, expressions_, scriptLog_, heap, k, compiled>>

\* lines 58-65: the constructor fails on an empty map, or selects the result
SelectResult ==
    /\ pc = "Result"
    /\ pc' = IF DOMAIN payoffs_ = {} THEN "Failed" ELSE "Constructed"
    /\ result_' = IF DOMAIN payoffs_ = {} THEN result_ ELSE resultOf(payoffs_)
    /\ UNCHANGED <<inputs, call, script, payoffs_, expressions_, scriptLog_, heap, k, compiled>>

Next ==
    \/ CheckSizes
    \/ InitMap
    \/ SelectGrammar
    \/ FlexBisonLine
    \/ FlexBisonReturn
    \/ ScriptLine
    \/ ScriptReturn
    \/ SelectResult

Spec == Init /\ [][Next]_vars

(***************************************************************************)
(* The query interface of a constructed object.  The payoff nodes are      *)
(* external: a node gives its observation times and its value on a path.   *)
(* A path gives the value of each external payoff; times and amounts are   *)
(* integers here.                                                          *)
(***************************************************************************)
\* payoffs[k]->observationTimes(): an external payoff i observes i and
\* i + 1, a fixed amount observes 0, a composite node observes what its
\* arguments observe
RECURSIVE nodeTimes(_, _)
nodeTimes(h, n) ==
    IF h[n].kind = "External" THEN {n, n + 1}
    ELSE IF h[n].kind = "FixedAmount" THEN {0}
    ELSE UNION {nodeTimes(h, h[n].args[i]) : i \in {j \in 1..Len(h[n].args) : h[n].args[j] # 0}}

\* MCPayoffT::unionTimes(s, times)
unionTimes(s, times) == s \cup times

\* std::vector<DateType>(s.begin(), s.end()): the elements of the set in
\* increasing order
RECURSIVE vectorOf(_)
vectorOf(s) ==
    IF s = {} THEN <<>>
    ELSE <<CHOOSE x \in s : \A y \in s : x <= y>>
         \o vectorOf(s \ {CHOOSE x \in s : \A y \in s : x <= y})

\* the value of a node on a path: at(p) of the nodes the scripts build
RECURSIVE valueAt(_, _, _)
valueAt(h, n, path) ==
    IF n = 0 THEN 0
    ELSE CASE h[n].kind = "External"    -> path[n]
           [] h[n].kind = "FixedAmount" -> h[n].num.num
           [] h[n].kind = "Axpy" ->
                 h[n].num.num * valueAt(h, h[n].args[1], path) + valueAt(h, h[n].args[2], path)
           [] h[n].kind = "Mult" ->
                 valueAt(h, h[n].args[1], path) * valueAt(h, h[n].args[2], path)
           [] h[n].kind = "Min" ->
                 IF valueAt(h, h[n].args[1], path) < valueAt(h, h[n].args[2], path)
                 THEN valueAt(h, h[n].args[1], path) ELSE valueAt(h, h[n].args[2], path)
           [] h[n].kind = "Max" ->
                 IF valueAt(h, h[n].args[1], path) > valueAt(h, h[n].args[2], path)
                 THEN valueAt(h, h[n].args[1], path) ELSE valueAt(h, h[n].args[2], path)
           [] h[n].kind = "IfThenElse" ->
                 IF valueAt(h, h[n].args[1], path) # 0
                 THEN valueAt(h, h[n].args[2], path) ELSE valueAt(h, h[n].args[3], path)
           [] h[n].kind \in {"Cache", "Pay"} -> valueAt(h, h[n].args[1], path)

\* findPayoffs without the exception: a name the map does not hold is skipped
RECURSIVE findPayoffsSkips(_, _, _)
findPayoffsSkips(ks, map, throwException) ==
    IF ks = <<>> THEN [ok |-> TRUE, payoffs |-> <<>>, missing |-> <<>>]
    ELSE IF find(map, Head(ks)).found
    THEN [ok |-> TRUE,
          payoffs |-> <<find(map, Head(ks)).node>>
                      \o findPayoffsSkips(Tail(ks), map, throwException).payoffs,
          missing |-> <<>>]
    ELSE findPayoffsSkips(Tail(ks), map, throwException)

\* lines 178-189: the payoffs of the keys, in their order; the first key the
\* map does not hold ends the search with an exception
RECURSIVE findPayoffs(_, _, _)
findPayoffs(ks, map, throwException) ==
    IF ks = <<>> THEN [ok |-> TRUE, payoffs |-> <<>>, missing |-> <<>>]
    ELSE IF ~find(map, Head(ks)).found /\ throwException
    THEN [ok |-> FALSE, payoffs |-> <<>>, missing |-> Head(ks)]
    ELSE IF ~findPayoffs(Tail(ks), map, throwException).ok
    THEN findPayoffs(Tail(ks), map, throwException)
    ELSE [ok |-> TRUE,
          payoffs |-> (IF find(map, Head(ks)).found THEN <<find(map, Head(ks)).node>> ELSE <<>>)
                      \o findPayoffs(Tail(ks), map, throwException).payoffs,
          missing |-> <<>>]

\* what a call of the query interface leaves: the operation and its keys,
\* whether an exception left it, the paths it asked the simulation for, the
\* payoff evaluations it made, and the value it returned
Call(op, ks, failed, paths, evaluated, result) ==
    [op |-> op, keys |-> ks, failed |-> failed, paths |-> paths,
     evaluated |-> evaluated, result |-> result]

\* lines 85-97, after findPayoffs: one path per n < nPaths, one evaluation
\* per path and payoff; npv[k] is the mean of payoff k over the paths
npvOf(found, ks, nPaths) ==
    IF ~found.ok THEN Call("NPV", ks, TRUE, 0, 0, <<>>)
    ELSE Call("NPV", ks, FALSE, nPaths, nPaths * Len(found.payoffs),
              [i \in 1..Len(found.payoffs) |-> [payoff |-> found.payoffs[i], paths |-> nPaths]])

\* lines 85-97: NPV(simulation, keys)
NPV(nPaths, ks, map) == npvOf(findPayoffs(ks, map, TRUE), ks, nPaths)

\* timesOf that keeps the times of the last payoff only
timesOfLast(ps, s, h) == IF ps = <<>> THEN s ELSE nodeTimes(h, ps[Len(ps)])

\* line 80: the loop that unites the observation times of the payoffs
RECURSIVE timesOf(_, _, _)
timesOf(ps, s, h) ==
    IF ps = <<>> THEN s ELSE timesOf(Tail(ps), unionTimes(s, nodeTimes(h, Head(ps))), h)

\* lines 77-82, after findPayoffs
timesResult(found, ks, h) ==
    IF ~found.ok THEN Call("observationTimes", ks, TRUE, 0, 0, <<>>)
    ELSE Call("observationTimes", ks, FALSE, 0, 0, vectorOf(timesOf(found.payoffs, {}, h)))

\* lines 77-82: observationTimes(keys)
observationTimes(ks, map, h) == timesResult(findPayoffs(ks, map, TRUE), ks, h)

\* the largest number of keys of a query, and of paths of a simulation
MaxQueryKeys == 2

MaxPaths == 1

sB == <<"b">>

sC == <<"c">>

sY == <<"y">>

sZ == <<"z">>

sW == <<"w">>

\* the names the queries ask for
QueryNames == {sA, sC, sY}

QueryKeys == UNION {[1..n -> QueryNames] : n \in 0..MaxQueryKeys}

\* the paths: the value of each external payoff on the path
Paths == {[i \in 1..(MaxKeys + 1) |-> i + 1], [i \in 1..(MaxKeys + 1) |-> 7 - 2 * i]}

\* the fields of the object and the arguments of its constructor
object == <<keys, payoffs, script, nLines, overwrite, payoffs_, expressions_, scriptLog_,
            result_, heap, pc, k, compiled>>

\* lines 68-70: at(p)
At ==
    /\ pc = "Constructed"
    /\ \E path \in Paths : call' = Call("at", <<>>, FALSE, 0, 1, valueAt(heap, result_, path))
    /\ UNCHANGED object

\* lines 73-75: the inspectors payoffs(), expressions() and scriptLog()
Inspect ==
    /\ pc = "Constructed"
    /\ \/ call' = Call("payoffs", <<>>, FALSE, 0, 0, payoffs_)
       \/ call' = Call("expressions", <<>>, FALSE, 0, 0, expressions_)
       \/ call' = Call("scriptLog", <<>>, FALSE, 0, 0, scriptLog_)
    /\ UNCHANGED object

\* ObservationTimes that logs the failure of the search
ObservationTimesLogs ==
    /\ pc = "Constructed"
    /\ \E ks \in QueryKeys :
          /\ call' = observationTimes(ks, payoffs_, heap)
          /\ scriptLog_' = IF call'.failed
                           THEN Append(scriptLog_, Entry("Error", 0, "not found", <<>>))
                           ELSE scriptLog_
    /\ UNCHANGED <<keys, payoffs, script, nLines, overwrite, payoffs_, expressions_,
                   result_, heap, pc, k, compiled>>

\* lines 77-82: a call of observationTimes
ObservationTimes ==
    /\ pc = "Constructed"
    /\ \E ks \in QueryKeys : call' = observationTimes(ks, payoffs_, heap)
    /\ UNCHANGED object

\* lines 85-97: a call of NPV
Valuation ==
    /\ pc = "Constructed"
    /\ \E ks \in QueryKeys, nPaths \in 0..MaxPaths : call' = NPV(nPaths, ks, payoffs_)
    /\ UNCHANGED object

(***************************************************************************)
(* Whole scripts: the constructor is given one of the scripts below, and   *)
(* the constructed object is queried.                                      *)
(***************************************************************************)
\* the line var = text, with the tree the driver gives for it
Assign(var, text, tree) == Line(var \o <<"=">> \o text, 0, Assignment(var, tree))

lA2 == Assign(sA, <<"2">>, Number(<<"2">>))

lB3 == Assign(sB, <<"3">>, Number(<<"3">>))

lC1 == Assign(sC, <<"1">>, Number(<<"1">>))

lY1 == Assign(sY, <<"1">>, Number(<<"1">>))

lZ1 == Assign(sZ, <<"1">>, Number(<<"1">>))

\* c = a * b - 1, which the driver reads as (a * b) - 1
lProductLess1 ==
    Line(<<"c"," ","=","a"," ","*"," ","b"," ","-"," ","1">>, 0,
         Assignment(sC, Binary("MINUS", Binary("MULT", Identifier(sA), Identifier(sB)),
                                Number(<<"1">>))))

\* x = Min(Max(a,b),c)
lNested ==
    Assign(sX, <<"M","i","n","(","M","a","x","(","a",",","b",")",",","c",")">>,
           Binary("MIN", Binary("MAX", Identifier(sA), Identifier(sB)), Identifier(sC)))

\* x = a+b+a
lChained ==
    Assign(sX, <<"a","+","b","+","a">>,
           Binary("PLUS", Binary("PLUS", Identifier(sA), Identifier(sB)), Identifier(sA)))

\* x = 1+2+3
lSum ==
    Assign(sX, <<"1","+","2","+","3">>,
           Binary("PLUS", Binary("PLUS", Number(<<"1">>), Number(<<"2">>)), Number(<<"3">>)))

\* y = z+1
lUndefined == Assign(sY, <<"z","+","1">>, Binary("PLUS", Identifier(sZ), Number(<<"1">>)))

\* y = z-w
lTwoUndefined == Assign(sY, <<"z","-","w">>, Binary("MINUS", Identifier(sZ), Identifier(sW)))

\* texts that are not the text NonRecursive: a space before it, a space
\* after it, lower case
lSpaceSentinel == Line(<<" ">> \o sNonRecursive, 0, Identifier(sNonRecursive))

lSentinelSpace == Line(sNonRecursive \o <<" ">>, 0, Identifier(sNonRecursive))

lLowerSentinel == Line(LowerStr(sNonRecursive), 0, Identifier(LowerStr(sNonRecursive)))

\* a text the driver fails on without a tree, one it fails on with a tree,
\* and one it gives no tree for
lBroken == Line(<<"a","=">>, 1, NoTree)

lPartial == Line(<<"a","=","1",")">>, 1, Assignment(sA, Number(<<"1">>)))

lEmpty == Line(<<>>, 0, NoTree)

Book ==
    { <<>>,
      <<lA2, lB3, lProductLess1>>,
      <<SentinelLine, lA2, lB3, lProductLess1>>,
      <<lA2, lB3, lC1, lNested>>,
      <<SentinelLine, lA2, lB3, lC1, lNested>>,
      <<lA2, lB3, lChained>>,
      <<SentinelLine, lA2, lB3, lChained>>,
      <<lSum>>,
      <<SentinelLine, lSum>>,
      <<lUndefined>>,
      <<SentinelLine, lUndefined>>,
      <<lUndefined, lZ1>>,
      <<lUndefined, lY1>>,
      <<lTwoUndefined, lA2>>,
      <<SentinelLine, lTwoUndefined, lA2>>,
      <<lSpaceSentinel, lA2>>,
      <<lSentinelSpace, lA2>>,
      <<lLowerSentinel, lA2>>,
      <<lA2, SentinelLine>>,
      <<lBroken, lPartial, lEmpty, lA2>> }

\* lists of keys the constructor takes as they are: the empty name, and a
\* name that starts with a minus sign
OtherKeyLists == { << <<>> >>, << <<"-","a">> >> }

InitScripts ==
    /\ keys \in KeyLists \cup OtherKeyLists
    /\ \E np \in 0..MaxKeys :
          /\ payoffs = [i \in 1..np |-> i]
          /\ heap = [i \in 1..np |-> External]
    /\ script \in Book
    /\ nLines = Len(script)
    /\ overwrite \in BOOLEAN
    /\ payoffs_ = EmptyMap
    /\ expressions_ = <<>>
    /\ scriptLog_ = <<>>
    /\ result_ = 0
    /\ pc = "Construct"
    /\ k = 0
    /\ compiled = <<>>
    /\ call = NoCall

NextScripts ==
    \/ CheckSizes
    \/ InitMap
    \/ SelectGrammar
    \/ FlexBisonLine
    \/ FlexBisonReturn
    \/ ScriptLine
    \/ ScriptReturn
    \/ SelectResult
    \/ At
    \/ Inspect
    \/ ObservationTimes
    \/ Valuation

SpecScripts == InitScripts /\ [][NextScripts]_vars

(***************************************************************************)
(* Scripts of one line each, for the cases of the expression compiler: the *)
(* tree of each kind with every number of childs and of leafs, at the top  *)
(* of the right side and below it.                                         *)
(***************************************************************************)
\* the largest numbers of childs and of leafs of the trees
MaxChilds == 3

MaxLeafs == 2

\* the line the driver reads as var = tree
Parsed(var, tree) == Line(var \o <<"=">>, 0, Assignment(var, tree))

\* a tree of the type with n childs, each the number 1, and m leafs "1"
Shaped(type, n, m) ==
    Tree(type, [i \in 1..n |-> Number(<<"1">>)], [i \in 1..m |-> <<"1">>])

\* the tree of each type of the switch with every shape
ShapedTrees == {Shaped(type, n, m) : type \in SwitchTypes, n \in 0..MaxChilds, m \in 0..MaxLeafs}

\* the same trees as the second operand of a product
NestedTrees == {Binary("MULT", Number(<<"1">>), t) : t \in ShapedTrees}

\* assignments of every shape
ShapedAssignments ==
    {Line(<<"x","=","1">>, 0,
          Tree("ASSIGNMENT", [i \in 1..n |-> Number(<<"1">>)], [i \in 1..m |-> sX])) :
        n \in 0..MaxChilds, m \in 0..MaxLeafs}

ShapeCases ==
    {<<Parsed(sX, t)>> : t \in ShapedTrees \cup NestedTrees}
        \cup {<<l>> : l \in ShapedAssignments}

\* well-formed trees over numbers and the name a: the leaves, each operator
\* on leaves, and operators on those
Leaves == {Number(<<"0">>), Number(<<"2">>), Identifier(sA)}

Unary(type, t) == Tree(type, <<t>>, <<>>)

Conditional(c, t, e) == Tree("IFTHENELSE", <<c, t, e>>, <<>>)

OverLeaves ==
    {Unary(type, t) : type \in {"UNARYPLUS", "UNARYMINUS"}, t \in Leaves}
        \cup {Binary(type, t, u) : type \in {"PLUS", "MINUS", "MULT", "MIN", "MAX"},
                                   t \in Leaves, u \in Leaves}
        \cup {Conditional(c, t, e) : c \in Leaves, t \in Leaves, e \in Leaves}

OverThose ==
    {Unary("UNARYMINUS", t) : t \in OverLeaves}
        \cup {Binary("MINUS", Number(<<"2">>), t) : t \in OverLeaves}
        \cup {Conditional(t, Number(<<"2">>), Identifier(sA)) : t \in OverLeaves}

lA3 == Assign(sA, <<"3">>, Number(<<"3">>))

\* a = 3, x = tree
ValueCases == {<<lA3, Parsed(sX, t)>> : t \in Leaves \cup OverLeaves \cup OverThose}

\* trees the compiler fails on: no tree, a number that is none, a name that
\* is not bound, a kind the switch has no case for, an assignment, a date
\* that is none, a sum of one operand
Faults ==
    { NoTree, Number(<<"x">>), Identifier(sX), Tree("UNKNOWN", <<>>, <<>>),
      Assignment(sA, Number(<<"1">>)), Shaped("PAY_WITHDATE", 1, 1), Shaped("PLUS", 1, 0) }

\* each of them as the right side, as an operand, and below an operand
FaultCases ==
    {<<Parsed(sX, t)>> : t \in Faults}
        \cup {<<Parsed(sX, Binary("MULT", Number(<<"1">>), t))>> : t \in Faults}
        \cup {<<Parsed(sX, Unary("UNARYMINUS", Binary("PLUS", t, Identifier(sA)))), lA3>> :
                 t \in Faults}

sInf == <<"i","n","f">>

\* inf = 1
lInf1 == Assign(sInf, <<"1">>, Number(<<"1">>))

\* var = left + right
Sum(var, left, right, l, r) == Assign(var, left \o <<"+">> \o right, Binary("PLUS", l, r))

\* scripts for parseScript whose last line has operands that are numbers,
\* bound names, names that are not bound, and the bound name inf
OperandCases ==
    { <<SentinelLine, lA3, Assign(sX, sA, Identifier(sA))>>,
      <<SentinelLine, lA3, Sum(sX, sA, <<"2">>, Identifier(sA), Number(<<"2">>))>>,
      <<SentinelLine, lA3, Sum(sX, <<"2">>, sA, Number(<<"2">>), Identifier(sA))>>,
      <<SentinelLine, Sum(sX, sA, <<"2">>, Identifier(sA), Number(<<"2">>))>>,
      <<SentinelLine, Sum(sX, <<"2">>, sX, Number(<<"2">>), Identifier(sX))>>,
      <<SentinelLine, lInf1, Assign(sX, sInf, Identifier(sInf))>>,
      <<SentinelLine, lInf1, Sum(sX, sInf, <<"2">>, Identifier(sInf), Number(<<"2">>))>> }

\* date tokens: 01Jan2030, and tokens with a day that is not two digits, a
\* month in lower case, a year that is not four digits, ten characters, a
\* day the month has not
DateTokens ==
    { <<"0","1","J","a","n","2","0","3","0">>,
      <<"1","x","J","a","n","2","0","3","0">>,
      <<" ","1","J","a","n","2","0","3","0">>,
      <<"x","1","J","a","n","2","0","3","0">>,
      <<"0","1","j","a","n","2","0","3","0">>,
      <<"0","1","J","a","n","2","0","3","x">>,
      <<"0","1","J","a","n","x","0","3","0">>,
      <<"0","1","J","a","n","2","0","3","0","0">>,
      <<"3","1","F","e","b","2","0","3","0">> }

\* x = Pay(1, token) and x = 1 @ token
DateCases ==
    {<<Parsed(sX, Tree(type, <<Number(<<"1">>)>>, <<token>>))>> :
        type \in {"PAY_WITHDATE", "PAYOFFAT_WITHDATE"}, token \in DateTokens}

\* lines the loop rejects before the compiler: the driver failed with and
\* without a tree, gave no tree, gave an expression that is no assignment,
\* gave an assignment to the empty name
RejectCases ==
    { <<lPartial, lEmpty>>,
      <<lBroken, lA2>>,
      <<Line(sA, 0, Identifier(sA)), Line(<<"=","1">>, 0, Assignment(<<>>, Number(<<"1">>)))>> }

\* a = 2, x = a + 2, a = 3, payoff = a: a is bound again after x used it
Rebinding ==
    <<lA2, Sum(sX, sA, <<"2">>, Identifier(sA), Number(<<"2">>)), lA3,
      Assign(sPayoff, sA, Identifier(sA))>>

RebindCases == {Rebinding, <<SentinelLine>> \o Rebinding}

Cases ==
    ShapeCases \cup ValueCases \cup FaultCases \cup OperandCases \cup DateCases
        \cup RejectCases \cup RebindCases

InitCases ==
    /\ keys \in {<<>>, <<sA>>}
    /\ \E np \in 0..1 :
          /\ payoffs = [i \in 1..np |-> i]
          /\ heap = [i \in 1..np |-> External]
    /\ script \in Cases
    /\ nLines = Len(script)
    /\ overwrite \in BOOLEAN
    /\ payoffs_ = EmptyMap
    /\ expressions_ = <<>>
    /\ scriptLog_ = <<>>
    /\ result_ = 0
    /\ pc = "Construct"
    /\ k = 0
    /\ compiled = <<>>
    /\ call = NoCall

SpecCases == InitCases /\ [][Next]_vars

(***************************************************************************)
(* Properties                                                              *)
(***************************************************************************)
Loops == {"parseFlexBisonScript", "parseScript"}

\* the body of one of the two loops is about to run for line k
AtLine == pc \in Loops /\ k < nLines

Range(f) == {f[x] : x \in DOMAIN f}

HasEntry(tag, line, msg) ==
    \E i \in DOMAIN scriptLog_ :
        /\ scriptLog_[i].tag = tag
        /\ scriptLog_[i].line = line
        /\ scriptLog_[i].msg = msg

\* the log entries with one of the tags for a line
Entries(tags, line) ==
    {i \in DOMAIN scriptLog_ : scriptLog_[i].tag \in tags /\ scriptLog_[i].line = line}

\* the name a line assigns to, as the grammar of the loop reads it (<<>>: none)
TargetName(line, grammar) ==
    IF grammar = "parseScript"
    THEN (IF MatchAssignment(RemoveSpaces(line.text)).ok
          THEN MatchAssignment(RemoveSpaces(line.text)).what[1] ELSE <<>>)
    ELSE (IF /\ line.returnValue = 0
             /\ line.expressionTree.type = "ASSIGNMENT"
             /\ Len(line.expressionTree.leafs) = 1
          THEN line.expressionTree.leafs[1] ELSE <<>>)

\* the step for line k ended with an Insert or Replace entry for line k
Bound(lg, line) ==
    /\ lg # <<>>
    /\ lg[Len(lg)].tag \in {"Insert", "Replace"}
    /\ lg[Len(lg)].line = line

\* the step for line k ended with an Error entry for line k
Rejected(lg, line) ==
    /\ lg # <<>>
    /\ lg[Len(lg)].tag = "Error"
    /\ lg[Len(lg)].line = line

-----------------------------------------------------------------------------
\* C1: once the initial bindings are accepted, the loop of either grammar
\* starts at line 0, every step of it processes line k (it logs at least one
\* entry, the last one for line k) and moves to line k + 1 whatever the line
\* did, and the loop is left only after line nLines - 1, for the selection of
\* the result: no line aborts the script.
C1_Step ==
    /\ (pc = "InitMap" /\ pc' \in Loops => k' = 0 /\ compiled' = <<>>)
    /\ (AtLine => /\ pc' = pc
                  /\ k' = k + 1
                  /\ Len(compiled') = k + 1
                  /\ Len(scriptLog_') > Len(scriptLog_)
                  /\ scriptLog_'[Len(scriptLog_')].line = k)
    /\ (pc \in Loops /\ pc' \notin Loops => k = nLines /\ pc' = "Result")

C1_EveryLineProcessed == [][C1_Step]_vars

\* line 0 failed in the compiler and line 1 was bound after it
C1_Witness ==
    /\ pc = "Result"
    /\ HasEntry("Error", 0, "Exception caught")
    /\ HasEntry("Insert", 1, "line")

-----------------------------------------------------------------------------
\* C2: with overwrite disabled, a step of either loop leaves every name of
\* the map bound to the node it was bound to, and a line whose target is
\* already bound ends with an Error entry that carries the line's index.
C2_Step ==
    (~overwrite /\ AtLine) =>
        /\ \A name \in DOMAIN payoffs_ :
              name \in DOMAIN payoffs_' /\ payoffs_'[name] = payoffs_[name]
        /\ TargetName(script'[k + 1], pc) \in DOMAIN payoffs_
              => Rejected(scriptLog_', k)

C2_FirstBindingKept == [][C2_Step]_vars

\* parseScript: line 1 bound a name and line 2 could not replace it
C2_Witness ==
    /\ ~overwrite
    /\ HasEntry("Insert", 1, "line")
    /\ HasEntry("Error", 2, "can not be replaced")
    /\ compiled[2].var = compiled[3].var
    /\ payoffs_[compiled[2].var] = compiled[2].p
    /\ compiled[3].p # compiled[2].p

-----------------------------------------------------------------------------
\* line j (counted from 1) compiled to a payoff and has a target name
Succeeded(j) == compiled[j].p # 0 /\ compiled[j].var # <<>>

\* the lines that compiled with target name
LinesFor(name) == {j \in 1..Len(compiled) : Succeeded(j) /\ compiled[j].var = name}

\* the payoff of the last initial binding of name
LastInitial(name) == payoffs[Largest({i \in 1..Len(keys) : keys[i] = name})]

\* C3: with overwrite enabled, during and after the loops the map holds the
\* initial names and the targets of the lines that compiled; each name is
\* bound to the payoff of the last line that compiled with that target, or
\* to its last initial binding if there is no such line; and a line that
\* compiled has exactly one Insert entry if its target was unbound before
\* it, and exactly one Replace entry if it was bound.
C3_LastBindingWins ==
    (overwrite /\ pc \in Loops \cup {"Result", "Constructed"}) =>
        /\ DOMAIN payoffs_ =
              Range(keys) \cup {compiled[j].var : j \in {i \in 1..Len(compiled) : Succeeded(i)}}
        /\ \A name \in DOMAIN payoffs_ :
              payoffs_[name] = IF LinesFor(name) # {}
                               THEN compiled[Largest(LinesFor(name))].p
                               ELSE LastInitial(name)
        /\ \A j \in 1..Len(compiled) :
              Succeeded(j) =>
                 LET wasBound == \/ compiled[j].var \in Range(keys)
                                 \/ \E i \in LinesFor(compiled[j].var) : i < j
                 IN  /\ Cardinality(Entries({"Insert"}, j - 1)) = IF wasBound THEN 0 ELSE 1
                     /\ Cardinality(Entries({"Replace"}, j - 1)) = IF wasBound THEN 1 ELSE 0

\* line 0 inserted a name and line 1 replaced its payoff by another one
C3_Witness ==
    /\ overwrite
    /\ pc = "Constructed"
    /\ HasEntry("Insert", 0, "line")
    /\ HasEntry("Replace", 1, "line")
    /\ compiled[1].var = compiled[2].var
    /\ compiled[1].p # compiled[2].p
    /\ payoffs_[compiled[2].var] = compiled[2].p

-----------------------------------------------------------------------------
\* C4: a step of either loop that does not end with an Insert or Replace
\* entry for its line (the line failed at some stage) leaves the map as it
\* was.
C4_Step == (AtLine /\ ~Bound(scriptLog_', k)) => payoffs_' = payoffs_

C4_FailedLineKeepsMap == [][C4_Step]_vars

\* line 1 assigns to a name that line 0 bound, its right side fails in the
\* compiler and the name keeps the payoff of line 0
C4_Witness ==
    /\ Len(script) >= 2
    /\ HasEntry("Insert", 0, "line")
    /\ HasEntry("Error", 1, "Exception caught")
    /\ TargetName(script[2], "parseFlexBisonScript") = compiled[1].var
    /\ payoffs_[compiled[1].var] = compiled[1].p

-----------------------------------------------------------------------------
\* C5: a constructed object whose map binds "payoff" has the payoff bound to
\* "payoff" as its result, whatever other names the map binds.
C5_ResultIsPayoff ==
    (pc = "Constructed" /\ sPayoff \in DOMAIN payoffs_) => result_ = payoffs_[sPayoff]

\* "payoff" and the larger name "x" are both bound, to different payoffs
C5_Witness ==
    /\ pc = "Constructed"
    /\ sPayoff \in DOMAIN payoffs_
    /\ sX \in DOMAIN payoffs_
    /\ payoffs_[sX] # payoffs_[sPayoff]
    /\ result_ = payoffs_[sPayoff]

-----------------------------------------------------------------------------
\* the lines that inserted a name (counted from 1)
InsertLines == {j \in 1..Len(compiled) : Entries({"Insert"}, j - 1) # {}}

\* the initial keys that inserted a name: the first occurrences
InsertKeys == {i \in 1..Len(keys) : \A j \in 1..(i - 1) : keys[j] # keys[i]}

\* the name inserted last into a map that is not empty
LastInserted ==
    IF InsertLines # {} THEN compiled[Largest(InsertLines)].var
    ELSE keys[Largest(InsertKeys)]

\* C6: a constructed object whose map does not bind "payoff" has as its
\* result the payoff of the name that was inserted last.
C6_ResultIsLastInserted ==
    (pc = "Constructed" /\ sPayoff \notin DOMAIN payoffs_) => result_ = payoffs_[LastInserted]

-----------------------------------------------------------------------------
\* the initial bindings the constructor rejects
BadInitial ==
    \/ Len(keys) # Len(payoffs)
    \/ ~overwrite /\ \E i, j \in 1..Len(keys) : i < j /\ keys[i] = keys[j]

\* the loop that initialises the map has accepted every initial binding
InitialAccepted == pc \notin {"Construct", "Failed"} /\ ~(pc = "InitMap" /\ k < Len(keys))

\* C7: with key and payoff lists of different lengths, or with a repeated
\* key and overwrite disabled, the constructor never gets past the initial
\* bindings: it reads no line and logs nothing, and it fails.  With
\* overwrite enabled and lists of equal lengths the initial bindings are
\* accepted, and before the first line every key is bound to the payoff of
\* its last occurrence.
C7_InitialBindings ==
    /\ BadInitial =>
          /\ ~InitialAccepted
          /\ script = <<>> /\ scriptLog_ = <<>> /\ compiled = <<>>
          /\ pc # "Failed" => ENABLED (CheckSizes \/ InitMap)
    /\ ~BadInitial =>
          /\ pc = "Failed" => DOMAIN payoffs_ = {} /\ k = nLines
          /\ pc # "Failed" /\ ~InitialAccepted => ENABLED (CheckSizes \/ InitMap)
          /\ InitialAccepted /\ compiled = <<>> =>
                /\ DOMAIN payoffs_ = Range(keys)
                /\ \A name \in Range(keys) : payoffs_[name] = LastInitial(name)

\* overwrite enabled, the key "a" given twice: the second payoff is bound
C7_Witness ==
    /\ overwrite
    /\ keys = <<sA, sA>>
    /\ InitialAccepted
    /\ payoffs_[sA] = payoffs[2]
    /\ payoffs[2] # payoffs[1]

-----------------------------------------------------------------------------
\* C8: after the script is processed the constructor fails if the map is
\* empty; a constructed object has a map that is not empty and its result is
\* a payoff of the map.
C8_Step == (pc = "Result" /\ DOMAIN payoffs_ = {}) => pc' = "Failed"

C8_State ==
    pc = "Constructed" =>
        /\ DOMAIN payoffs_ # {}
        /\ \E name \in DOMAIN payoffs_ : result_ = payoffs_[name]

C8_EmptyMapFails == []C8_State /\ [][C8_Step]_vars

\* no initial binding, every line of a script of at least one line failed
C8_Witness ==
    /\ pc = "Failed"
    /\ ~BadInitial
    /\ nLines >= 1
    /\ Len(compiled) = nLines
    /\ DOMAIN payoffs_ = {}

-----------------------------------------------------------------------------
\* the names a tree refers to
RECURSIVE IdentifiersOf(_)
IdentifiersOf(tree) ==
    IF tree.type = "IDENTIFIER" THEN {tree.leafs[1]}
    ELSE UNION {IdentifiersOf(tree.childs[i]) : i \in 1..Len(tree.childs)}

\* the line is an assignment of one expression to one name
IsStatement(line) ==
    /\ line.returnValue = 0
    /\ line.expressionTree.type = "ASSIGNMENT"
    /\ Len(line.expressionTree.childs) = 1
    /\ Len(line.expressionTree.leafs) = 1

\* the names the right side of a line refers to
Referenced(line) ==
    IF IsStatement(line) THEN IdentifiersOf(line.expressionTree.childs[1]) ELSE {}

\* every node references nodes allocated before it
Acyclic == \A i \in 1..Len(heap) : \A a \in 1..Len(heap[i].args) : heap[i].args[a] < i

\* C9: a name of a right side is resolved against the map as it is when the
\* line is processed: the nodes a line allocates reference only nodes of the
\* same line and nodes the map held before the line, so does the payoff of
\* the line; a line that refers to a name the map does not hold yet leaves
\* the map as it was; and no node is reachable from itself.
C9_Step ==
    AtLine =>
        /\ \A i \in (Len(heap) + 1)..Len(heap') :
              \A a \in 1..Len(heap'[i].args) :
                 \/ heap'[i].args[a] \in (Len(heap) + 1)..(i - 1)
                 \/ heap'[i].args[a] \in Range(payoffs_)
        /\ compiled'[k + 1].p \in {0} \cup (Len(heap) + 1)..Len(heap') \cup Range(payoffs_)
        /\ SubSeq(heap', 1, Len(heap)) = heap
        /\ Referenced(script'[k + 1]) \ DOMAIN payoffs_ # {} => payoffs_' = payoffs_

C9_DefineBeforeUse == []Acyclic /\ [][C9_Step]_vars

\* line j rebinds "a" to a + a: the new node references the payoff "a" had
C9_Witness ==
    \E j \in 1..Len(compiled) :
        /\ script[j].text = <<"a","=","a","+","a">>
        /\ HasEntry("Replace", j - 1, "line")
        /\ payoffs_[sA] = compiled[j].p
        /\ heap[compiled[j].p].kind = "Axpy"
        /\ heap[compiled[j].p].args[1] < compiled[j].p
        /\ heap[compiled[j].p].args[1] # 0

-----------------------------------------------------------------------------
\* node stands for tree: an identifier is the node the map binds to its name,
\* a number is a fixed amount, a unary plus is its operand, and any other
\* expression is a node whose arguments stand for the childs of the tree
RECURSIVE Represents(_, _, _, _)
Represents(node, tree, map, h) ==
    IF tree.type = "IDENTIFIER"
    THEN tree.leafs[1] \in DOMAIN map /\ node = map[tree.leafs[1]]
    ELSE IF tree.type = "UNARYPLUS"
    THEN Represents(node, tree.childs[1], map, h)
    ELSE /\ node \in 1..Len(h)
         /\ node \notin Range(map)
         /\ \A c \in 1..Len(tree.childs) :
               \E a \in 1..Len(h[node].args) : Represents(h[node].args[a], tree.childs[c], map, h)
         /\ \A a \in 1..Len(h[node].args) :
               \E c \in 1..Len(tree.childs) : Represents(h[node].args[a], tree.childs[c], map, h)

\* the nodes the compiler allocates for a tree
RECURSIVE Allocations(_)
Allocations(tree) ==
    IF tree.type = "IDENTIFIER" THEN 0
    ELSE IF tree.type = "UNARYPLUS" THEN Allocations(tree.childs[1])
    ELSE IF Len(tree.childs) = 0 THEN 1
    ELSE IF Len(tree.childs) = 1 THEN 1 + Allocations(tree.childs[1])
    ELSE 1 + Allocations(tree.childs[1]) + Allocations(tree.childs[2])

\* C10: a line that is bound has a payoff that stands for its right side
\* over the map as it was before the line: every reference to a name is the
\* very node the name is bound to, and the line allocates nodes for the
\* numbers and operations of the right side only, none for a name.
C10_Step ==
    (AtLine /\ IsStatement(script'[k + 1]) /\ Bound(scriptLog_', k)) =>
        /\ Represents(compiled'[k + 1].p, script'[k + 1].expressionTree.childs[1],
                      payoffs_, heap')
        /\ payoffs_'[compiled'[k + 1].var] = compiled'[k + 1].p
        /\ Len(heap') = Len(heap) + Allocations(script'[k + 1].expressionTree.childs[1])

-----------------------------------------------------------------------------
\* the keys of the last call that the map does not hold
Unresolved == {i \in 1..Len(call.keys) : call.keys[i] \notin DOMAIN payoffs_}

\* C11: a call of NPV with a key the map does not hold, at any position of
\* the key list, fails: it has asked the simulation for no path, evaluated no
\* payoff and returned nothing.  A call whose keys are all bound returns one
\* value per key, that of the payoff bound to the key.
C11_NPVFailsFast ==
    call.op = "NPV" =>
        IF Unresolved # {}
        THEN call.failed /\ call.paths = 0 /\ call.evaluated = 0 /\ call.result = <<>>
        ELSE /\ ~call.failed
             /\ Len(call.result) = Len(call.keys)
             /\ \A i \in 1..Len(call.keys) : call.result[i].payoff = payoffs_[call.keys[i]]

\* the first key is bound and the second is not
C11_Witness ==
    /\ call.op = "NPV"
    /\ call.failed
    /\ Len(call.keys) = 2
    /\ call.keys[1] \in DOMAIN payoffs_
    /\ call.keys[2] \notin DOMAIN payoffs_

-----------------------------------------------------------------------------
\* C12: a call of observationTimes with a key the map does not hold fails
\* and returns nothing; otherwise it returns, in increasing order and each
\* once, the times that the payoffs bound to its keys observe.
C12_TimesAreTheUnion ==
    call.op = "observationTimes" =>
        IF Unresolved # {}
        THEN call.failed /\ call.result = <<>>
        ELSE /\ ~call.failed
             /\ \A i, j \in 1..Len(call.result) : i < j => call.result[i] < call.result[j]
             /\ Range(call.result) =
                   UNION {nodeTimes(heap, payoffs_[call.keys[i]]) : i \in 1..Len(call.keys)}

\* two keys whose payoffs observe different sets of times with a time in common
C12_Witness ==
    /\ call.op = "observationTimes"
    /\ ~call.failed
    /\ Len(call.keys) = 2
    /\ nodeTimes(heap, payoffs_[call.keys[1]]) # nodeTimes(heap, payoffs_[call.keys[2]])
    /\ nodeTimes(heap, payoffs_[call.keys[1]]) \cap nodeTimes(heap, payoffs_[call.keys[2]]) # {}
    /\ nodeTimes(heap, payoffs_[call.keys[1]]) \ nodeTimes(heap, payoffs_[call.keys[2]]) # {}

-----------------------------------------------------------------------------
\* the script has been processed
Processed == pc \in {"Result", "Constructed"}

\* the lines that hold statements: all of them, or all after the line
\* NonRecursive
StatementLines ==
    IF isNonRecursive(script) THEN 2..Len(compiled) ELSE 1..Len(compiled)

\* every statement of the script compiled to a payoff for a target name
AllCompiled == \A j \in StatementLines : Succeeded(j)

\* the target names of the statements
TargetNames == {compiled[j].var : j \in StatementLines}

\* C13 as stated: after a script whose lines all compiled, the names of the
\* map are exactly the target names of the lines.
C13_NamesAreTargets ==
    (Processed /\ AllCompiled) => DOMAIN payoffs_ = TargetNames

\* C13, amended: after a script whose lines all compiled, the names of the
\* map are exactly the names of the initial bindings and the target names of
\* the lines, for both settings of overwrite.
C13_NamesAreKeysAndTargets ==
    (Processed /\ AllCompiled) => DOMAIN payoffs_ = Range(keys) \cup TargetNames

\* two statements compiled; an initial name is no target and a target is no
\* initial name
C13_Witness ==
    /\ Processed /\ AllCompiled
    /\ Cardinality(StatementLines) >= 2
    /\ Range(keys) \ TargetNames # {}
    /\ TargetNames \ Range(keys) # {}

-----------------------------------------------------------------------------
\* the names the right side of line k refers to that the map does not hold
UnboundNames == Referenced(script'[k + 1]) \ DOMAIN payoffs_

\* the step for line k appended an Error entry for line k that carries name
NamedInError(name) ==
    \E i \in (Len(scriptLog_) + 1)..Len(scriptLog_') :
        /\ scriptLog_'[i].tag = "Error"
        /\ scriptLog_'[i].line = k
        /\ scriptLog_'[i].arg = name

\* line j (counted from 1) is a statement that failed on a name
FailedOnName(j) ==
    /\ IsStatement(script[j])
    /\ compiled[j].p = 0
    /\ HasEntry("Error", j - 1, "is no payoff")

\* no binding holds the target of line j but the one line j would make
OnlyBinder(j) ==
    /\ script[j].expressionTree.leafs[1] \notin Range(keys)
    /\ \A i \in 1..Len(compiled) :
          i # j => ~(Succeeded(i) /\ compiled[i].var = script[j].expressionTree.leafs[1])

\* the target of a statement that failed on a name, and that nothing else
\* binds, is not in the map, and a call of NPV or observationTimes that asks
\* for it fails
C14_State ==
    \A j \in 1..Len(compiled) :
        (FailedOnName(j) /\ OnlyBinder(j)) =>
            /\ script[j].expressionTree.leafs[1] \notin DOMAIN payoffs_
            /\ (/\ call.op \in {"NPV", "observationTimes"}
                /\ script[j].expressionTree.leafs[1] \in Range(call.keys)) => call.failed

\* C14 as stated: a statement that refers to a name z the map does not hold
\* binds nothing, stays in the loop, and logs an Error entry with the line's
\* index and z, for every such z.
C14_StepEveryName ==
    (AtLine /\ UnboundNames # {}) =>
        /\ payoffs_' = payoffs_
        /\ pc' = pc /\ k' = k + 1
        /\ \A z \in UnboundNames : NamedInError(z)

C14_StepSomeName ==
    (AtLine /\ UnboundNames # {}) =>
        /\ payoffs_' = payoffs_
        /\ pc' = pc /\ k' = k + 1
        /\ \E z \in UnboundNames : NamedInError(z)
        /\ Cardinality(UnboundNames) = 1 => \A z \in UnboundNames : NamedInError(z)

-----------------------------------------------------------------------------
\* the script is not empty and its first line is the text NonRecursive
StartsNonRecursive(lines) ==
    /\ Len(lines) > 0
    /\ lines[1].text = <<"N","o","n","R","e","c","u","r","s","i","v","e">>

\* the messages only parseScript and its helpers log
LegacyMessages ==
    {"is no valid assignment", "is no valid expression", "can not be replaced",
     "is no valid operand", "is fixed amount"}

\* the grammar selected is the one that has processed the lines so far:
\* parseScript records no expression and rejects line 0, the text
\* NonRecursive; parseFlexBisonScript logs none of the messages of parseScript
C15_State ==
    pc \in Loops \cup {"Result", "Constructed"} =>
        IF StartsNonRecursive(script)
        THEN /\ pc # "parseFlexBisonScript"
             /\ expressions_ = <<>>
             /\ k > 0 => HasEntry("Error", 0, "is no valid assignment")
        ELSE /\ pc # "parseScript"
             /\ \A i \in DOMAIN scriptLog_ : scriptLog_[i].msg \notin LegacyMessages
             /\ \A j \in 1..Len(compiled) :
                   ~IsNull(script[j].expressionTree) =>
                      \E i \in DOMAIN expressions_ : expressions_[i].line = j - 1

\* C15: parseScript is entered exactly when the script is not empty and its
\* first line is the text NonRecursive, parseFlexBisonScript in every other
\* case (an empty script among them); the grammar entered processes all the
\* lines and the other one none.
C15_Step ==
    /\ (pc = "InitMap" /\ pc' \notin {"InitMap", "Failed"}) =>
          pc' = IF StartsNonRecursive(script') THEN "parseScript" ELSE "parseFlexBisonScript"
    /\ pc \in Loops => pc' \in {pc, "Result"}
    /\ pc \notin Loops \cup {"InitMap"} => pc' \notin Loops

C15_GrammarSelection == []C15_State /\ [][C15_Step]_vars

\* a first line with a space before NonRecursive went to parseFlexBisonScript
C15_Witness ==
    /\ pc = "Constructed"
    /\ script = <<lSpaceSentinel, lA2>>
    /\ HasEntry("Error", 0, "Assignment expected")
    /\ HasEntry("Insert", 1, "line")
    /\ Len(expressions_) = 2

-----------------------------------------------------------------------------
\* the line is an assignment whose right side has an operand that is itself
\* an operator or a function applied to operands
HasSubExpressionOperand(line) ==
    /\ IsStatement(line)
    /\ \E i \in DOMAIN line.expressionTree.childs[1].childs :
          line.expressionTree.childs[1].childs[i].childs # <<>>

\* every name the right side of the line refers to is bound
OperandsBound(line, map) ==
    IdentifiersOf(line.expressionTree.childs[1]) \subseteq DOMAIN map

\* C16: parseScript rejects a line one of whose operands is a sub-expression
\* and leaves the map as it is, and parseFlexBisonScript binds the target of
\* such a line once the names it refers to are bound.
C16_Step ==
    /\ (pc = "parseScript" /\ k < nLines /\ HasSubExpressionOperand(script'[k + 1])) =>
          /\ payoffs_' = payoffs_
          /\ Rejected(scriptLog_', k)
    /\ (/\ pc = "parseFlexBisonScript" /\ k < nLines
        /\ HasSubExpressionOperand(script'[k + 1])
        /\ OperandsBound(script'[k + 1], payoffs_)
        /\ (overwrite \/ TargetName(script'[k + 1], pc) \notin DOMAIN payoffs_)) =>
          /\ Bound(scriptLog_', k)
          /\ TargetName(script'[k + 1], pc) \in DOMAIN payoffs_'

C16_LegacyRejectsSubExpressions == [][C16_Step]_vars

-----------------------------------------------------------------------------
\* the script a = 2, b = 3, c = a * b - 1 for each grammar
ProductScript == <<lA2, lB3, lProductLess1>>

ProductScriptLegacy == <<SentinelLine, lA2, lB3, lProductLess1>>

\* the lines of the script are not kept from binding a, b and c by initial
\* bindings that may not be replaced
ScriptBinds == overwrite \/ \A i \in DOMAIN keys : keys[i] \notin {sA, sB, sC}

\* c is bound to a payoff worth v on every path
WorthOnEveryPath(name, v) ==
    /\ name \in DOMAIN payoffs_
    /\ \A path \in Paths : valueAt(heap, payoffs_[name], path) = v

\* the statement for whichever grammar: c is worth 5 after either script
C17_EitherGrammarGivesFive ==
    (pc = "Constructed" /\ script \in {ProductScript, ProductScriptLegacy} /\ ScriptBinds)
        => WorthOnEveryPath(sC, 5)

\* C17: parseFlexBisonScript binds c to a payoff worth 5, that is (a*b) - 1;
\* parseScript binds a and b to 2 and 3, rejects the third line because a*b
\* is no operand of it, and leaves c unbound.
C17_PrimaryGivesFive ==
    (pc = "Constructed" /\ ScriptBinds) =>
        /\ script = ProductScript => WorthOnEveryPath(sC, 5)
        /\ script = ProductScriptLegacy =>
              /\ sC \notin DOMAIN payoffs_
              /\ WorthOnEveryPath(sA, 2)
              /\ WorthOnEveryPath(sB, 3)
              /\ HasEntry("Error", 3, "is no valid operand")
              /\ HasEntry("Error", 3, "is no valid expression")

\* the primary grammar compiled c from a and b, bound by the two lines before
C17_Witness ==
    /\ pc = "Constructed"
    /\ script = ProductScript
    /\ keys = <<>>
    /\ HasEntry("Insert", 2, "line")
    /\ WorthOnEveryPath(sC, 5)
    /\ heap[payoffs_[sC]].kind = "Axpy"
    /\ result_ = payoffs_[sC]

-----------------------------------------------------------------------------
\* b is a with entries appended
Extends(b, a) == Len(a) <= Len(b) /\ SubSeq(b, 1, Len(a)) = a

\* the entries of the log are in the order of the lines they are about, and
\* each one is about a line of the script
C18_State ==
    /\ \A i \in DOMAIN scriptLog_ :
          /\ scriptLog_[i].tag \in {"Error", "Payoff", "Insert", "Replace"}
          /\ scriptLog_[i].line \in 0..(nLines - 1)
    /\ \A i, j \in DOMAIN scriptLog_ : i <= j => scriptLog_[i].line <= scriptLog_[j].line

\* C18: every step leaves the entries the log holds where they are and as
\* they are; the step for line k appends at least one entry and every entry
\* it appends carries k; no other step appends.
C18_Step ==
    /\ Extends(scriptLog_', scriptLog_)
    /\ AtLine =>
          /\ Len(scriptLog_') > Len(scriptLog_)
          /\ \A i \in (Len(scriptLog_) + 1)..Len(scriptLog_') : scriptLog_'[i].line = k
    /\ ~AtLine => scriptLog_' = scriptLog_

C18_LogAppendOnly == []C18_State /\ [][C18_Step]_vars

\* line 0 left entries, and line 1 added several, the last for an exception
C18_Witness ==
    /\ pc \in {"Result", "Constructed"}
    /\ Len(scriptLog_) >= 3
    /\ scriptLog_[1].line = 0
    /\ scriptLog_[Len(scriptLog_) - 1].line = 1
    /\ scriptLog_[Len(scriptLog_)] = Entry("Error", 1, "Exception caught", <<>>)

-----------------------------------------------------------------------------
\* the indices (from 0) of the lines of the script the parser succeeded on
ParsedLines == {j - 1 : j \in {i \in DOMAIN script : script[i].returnValue = 0}}

\* the indices (from 0) of the lines of the script the parser gave a tree for
TreeLines == {j - 1 : j \in {i \in DOMAIN script : ~IsNull(script[i].expressionTree)}}

\* expressions_ holds one entry for each line of the set, in the order of
\* the lines, each with the index and the tree of its line
EntriesFor(S) ==
    /\ Len(expressions_) = Cardinality(S)
    /\ \A i \in DOMAIN expressions_ :
          /\ expressions_[i].line = vectorOf(S)[i]
          /\ expressions_[i].tree = script[expressions_[i].line + 1].expressionTree

\* parseFlexBisonScript has processed every line of the script
PrimaryDone == pc \in {"Result", "Constructed"} /\ ~StartsNonRecursive(script)

\* the statement with the parser's success as the condition of an entry
C19_EntryPerParsedLine == PrimaryDone => EntriesFor(ParsedLines)

\* C19: after parseFlexBisonScript the list of expressions holds exactly one
\* entry for each line the parser gave a tree for, whether it reported
\* success or not, and none for a line without a tree; the entries are in
\* line order and each carries the index of its line.
C19_EntryPerTree == PrimaryDone => EntriesFor(TreeLines)

\* the parser failed on lines 0 and 1 and gave a tree for line 1, and it
\* succeeded on lines 2 and 3 and gave a tree for line 3
C19_Witness ==
    /\ pc = "Constructed"
    /\ script = <<lBroken, lPartial, lEmpty, lA2>>
    /\ expressions_ = << [line |-> 1, tree |-> lPartial.expressionTree],
                         [line |-> 3, tree |-> lA2.expressionTree] >>

-----------------------------------------------------------------------------
\* C20: a step taken on a constructed object, that is a call of at, of an
\* inspector, of observationTimes or of NPV, with keys that are bound or not,
\* leaves the map of payoffs, the list of expressions, the log and the
\* result as they are, and leaves the object constructed, so that the same
\* holds of every sequence of calls.
C20_Step ==
    pc = "Constructed" =>
        /\ pc' = "Constructed"
        /\ payoffs_' = payoffs_
        /\ expressions_' = expressions_
        /\ scriptLog_' = scriptLog_
        /\ result_' = result_
        /\ heap' = heap

C20_QueriesChangeNothing == [][C20_Step]_vars

\* a call of NPV failed on a name that is not bound, on an object whose
\* script left bindings, expressions and log entries
C20_Witness ==
    /\ pc = "Constructed"
    /\ call.op = "NPV"
    /\ call.failed
    /\ \E i \in DOMAIN call.keys : call.keys[i] \notin DOMAIN payoffs_
    /\ expressions_ # <<>>
    /\ scriptLog_ # <<>>
    /\ result_ = resultOf(payoffs_)

-----------------------------------------------------------------------------
\* C21: every name of the map of payoffs is a non-empty text whose first
\* character is a letter or a digit, in every state of the constructor and
\* of the constructed object.
C21_NamesWellFormed ==
    \A name \in DOMAIN payoffs_ : name # <<>> /\ Head(name) \in AlNum

-----------------------------------------------------------------------------
\* the numbers of childs and of leafs of each kind of node
ExpectedShape(type) ==
    CASE type \in {"NUMBER", "IDENTIFIER"} -> <<0, 1>>
      [] type \in {"UNARYPLUS", "UNARYMINUS"} -> <<1, 0>>
      [] type \in {"PLUS", "MINUS", "MULT", "DIVISION", "MIN", "MAX"} -> <<2, 0>>
      [] type = "IFTHENELSE" -> <<3, 0>>
      [] type = "LOGICAL" -> <<2, 1>>
      [] type \in {"PAY", "PAY_WITHDATE", "PAYOFFAT", "PAYOFFAT_WITHDATE"} -> <<1, 1>>
      [] type = "CACHE" -> <<1, 0>>
      [] type = "ASSIGNMENT" -> <<1, 1>>

Kinds == {"NUMBER", "IDENTIFIER", "UNARYPLUS", "UNARYMINUS", "PLUS", "MINUS", "MULT",
          "DIVISION", "MIN", "MAX", "IFTHENELSE", "LOGICAL", "PAY", "PAY_WITHDATE",
          "PAYOFFAT", "PAYOFFAT_WITHDATE", "CACHE", "ASSIGNMENT"}

\* the node has not the shape of its kind
WrongShape(tree) ==
    /\ tree.type \in Kinds
    /\ <<Len(tree.childs), Len(tree.leafs)>> # ExpectedShape(tree.type)

\* the node, or a node below it, has not the shape of its kind
RECURSIVE Misshapen(_)
Misshapen(tree) ==
    /\ ~IsNull(tree)
    /\ \/ WrongShape(tree)
       \/ \E i \in DOMAIN tree.childs : Misshapen(tree.childs[i])

\* the tree, or a tree below it, is one the compiler fails on for another
\* reason than its shape: it is absent, of no kind of the switch, a number
\* or a date that does not start as one, or a name the map does not hold
RECURSIVE OtherFault(_, _)
OtherFault(tree, map) ==
    \/ IsNull(tree)
    \/ tree.type \notin Kinds \ {"ASSIGNMENT"}
    \/ /\ ~WrongShape(tree)
       /\ \/ tree.type \in {"NUMBER", "PAY", "PAYOFFAT"}
                /\ (tree.leafs[1] = <<>> \/ Head(tree.leafs[1]) \in Letter)
          \/ tree.type \in {"PAY_WITHDATE", "PAYOFFAT_WITHDATE"} /\ Len(tree.leafs[1]) # 9
          \/ tree.type = "IDENTIFIER" /\ tree.leafs[1] \notin DOMAIN map
    \/ \E i \in DOMAIN tree.childs : OtherFault(tree.childs[i], map)

ShapeMessages == {"child expressions expected", "leafs expected"}

\* what the compiler logs where it fails
Reasons ==
    ShapeMessages \cup {"Empty expression tree", "unknown expression type",
                        "cannot convert to number", "is no payoff"}

\* the entries a step appended to the log
Appended == SubSeq(scriptLog_', Len(scriptLog_) + 1, Len(scriptLog_'))

\* the line of this step of parseFlexBisonScript, parsed to an assignment
AssignmentStep ==
    /\ pc = "parseFlexBisonScript"
    /\ k < nLines
    /\ script'[k + 1].returnValue = 0
    /\ ~IsNull(script'[k + 1].expressionTree)
    /\ script'[k + 1].expressionTree.type = "ASSIGNMENT"

\* C22: a line whose assignment, or a node of whose right side at any
\* depth, has not the numbers of childs and leafs of its kind binds nothing
\* and ends with an Error entry for the line; the step logs the shape for
\* the line unless the right side has another fault the compiler may meet
\* first.  When the node at fault is the assignment or the top of the right
\* side, the only entries of the step are the one that reports the shape
\* (and the one for the exception), and no payoff node has been created: the
\* shape is tested before anything else.
C22_Step ==
    AssignmentStep =>
        /\ WrongShape(script'[k + 1].expressionTree) =>
              /\ payoffs_' = payoffs_
              /\ heap' = heap
              /\ Len(Appended) = 1
              /\ Appended[1].tag = "Error" /\ Appended[1].line = k
              /\ Appended[1].msg \in ShapeMessages
        /\ (/\ ~WrongShape(script'[k + 1].expressionTree)
            /\ WrongShape(script'[k + 1].expressionTree.childs[1])) =>
              /\ payoffs_' = payoffs_
              /\ heap' = heap
              /\ Len(Appended) = 2
              /\ Appended[1].tag = "Error" /\ Appended[1].line = k
              /\ Appended[1].msg \in ShapeMessages
              /\ Appended[2] = Entry("Error", k, "Exception caught", <<>>)
        /\ (/\ ~WrongShape(script'[k + 1].expressionTree)
            /\ Misshapen(script'[k + 1].expressionTree.childs[1])) =>
              /\ payoffs_' = payoffs_
              /\ compiled'[k + 1].p = 0
              /\ Rejected(scriptLog_', k)
              /\ \E i \in DOMAIN Appended :
                    /\ Appended[i].tag = "Error" /\ Appended[i].line = k
                    /\ Appended[i].msg \in
                          IF OtherFault(script'[k + 1].expressionTree.childs[1], payoffs_)
                          THEN Reasons ELSE ShapeMessages

C22_ShapesValidated == [][C22_Step]_vars

\* the second operand of a product had a child too many: the first operand
\* was compiled, and the line bound nothing
C22_Witness ==
    /\ pc = "Constructed"
    /\ script = <<Parsed(sX, Binary("MULT", Number(<<"1">>), Shaped("CACHE", 2, 0)))>>
    /\ sX \notin DOMAIN payoffs_
    /\ Len(heap) = 2
    /\ scriptLog_[1].msg = "child expressions expected"
    /\ scriptLog_[2].msg = "Exception caught"

-----------------------------------------------------------------------------
\* the value of a tree, the names having the values of env
RECURSIVE treeValue(_, _)
treeValue(tree, env) ==
    CASE tree.type = "NUMBER"     -> DecValue(tree.leafs[1])
      [] tree.type = "IDENTIFIER" -> env[tree.leafs[1]]
      [] tree.type = "UNARYPLUS"  -> treeValue(tree.childs[1], env)
      [] tree.type = "UNARYMINUS" -> 0 - treeValue(tree.childs[1], env)
      [] tree.type = "PLUS"  -> treeValue(tree.childs[1], env) + treeValue(tree.childs[2], env)
      [] tree.type = "MINUS" -> treeValue(tree.childs[1], env) - treeValue(tree.childs[2], env)
      [] tree.type = "MULT"  -> treeValue(tree.childs[1], env) * treeValue(tree.childs[2], env)
      [] tree.type = "MIN" ->
            IF treeValue(tree.childs[1], env) < treeValue(tree.childs[2], env)
            THEN treeValue(tree.childs[1], env) ELSE treeValue(tree.childs[2], env)
      [] tree.type = "MAX" ->
            IF treeValue(tree.childs[1], env) > treeValue(tree.childs[2], env)
            THEN treeValue(tree.childs[1], env) ELSE treeValue(tree.childs[2], env)
      [] tree.type = "IFTHENELSE" ->
            IF treeValue(tree.childs[1], env) # 0
            THEN treeValue(tree.childs[2], env) ELSE treeValue(tree.childs[3], env)

\* the trees treeValue is defined for
RECURSIVE Arithmetic(_)
Arithmetic(tree) ==
    /\ tree.type \in {"NUMBER", "IDENTIFIER", "UNARYPLUS", "UNARYMINUS", "PLUS", "MINUS",
                      "MULT", "MIN", "MAX", "IFTHENELSE"}
    /\ ~WrongShape(tree)
    /\ tree.type = "NUMBER" => \A i \in DOMAIN tree.leafs[1] : tree.leafs[1][i] \in Digit
    /\ \A i \in DOMAIN tree.childs : Arithmetic(tree.childs[i])

\* the values the names of the map have on a path
Values(path) == [name \in DOMAIN payoffs_ |-> valueAt(heap, payoffs_[name], path)]

\* C23: a line whose right side is a well-formed tree of numbers, bound
\* names, +x, -x, x+y, x-y, x*y, Min, Max and IfThenElse, and whose target
\* may be bound, binds the target to a node whose value on every path is
\* the value of the tree, the names taken at their values before the line.
C23_Step ==
    (/\ AssignmentStep
     /\ ~WrongShape(script'[k + 1].expressionTree)
     /\ Arithmetic(script'[k + 1].expressionTree.childs[1])
     /\ OperandsBound(script'[k + 1], payoffs_)
     /\ script'[k + 1].expressionTree.leafs[1] # <<>>
     /\ (overwrite \/ script'[k + 1].expressionTree.leafs[1] \notin DOMAIN payoffs_)) =>
        /\ script'[k + 1].expressionTree.leafs[1] \in DOMAIN payoffs_'
        /\ \A path \in Paths :
              valueAt(heap', payoffs_'[script'[k + 1].expressionTree.leafs[1]], path)
                 = treeValue(script'[k + 1].expressionTree.childs[1], Values(path))

C23_CompiledValue == [][C23_Step]_vars

\* x = 2 - (0 - a) with a = 3 is worth 5
C23_Witness ==
    /\ pc = "Constructed"
    /\ keys = <<>>
    /\ script = <<lA3, Parsed(sX, Binary("MINUS", Number(<<"2">>),
                                         Binary("MINUS", Number(<<"0">>), Identifier(sA))))>>
    /\ WorthOnEveryPath(sX, 5)
    /\ heap[payoffs_[sX]].kind = "Axpy"

-----------------------------------------------------------------------------
\* the tree, or a tree below it, is one the compiler fails on
Faulty(tree, map) == Misshapen(tree) \/ OtherFault(tree, map)

ExceptionEntries(lg) == {i \in DOMAIN lg : lg[i].msg = "Exception caught"}

\* no line has more than one entry for a caught exception
C24_State ==
    \A i, j \in ExceptionEntries(scriptLog_) : scriptLog_[i].line = scriptLog_[j].line => i = j

\* C24: when the right side of a line fails in the compiler, at whatever
\* depth, the step ends with the entry of the reason followed by one entry
\* 'Exception caught', both for this line; nothing is bound, and the loop
\* goes on to the next line.
C24_Step ==
    (/\ AssignmentStep
     /\ ~WrongShape(script'[k + 1].expressionTree)
     /\ Faulty(script'[k + 1].expressionTree.childs[1], payoffs_)) =>
        /\ pc' = pc /\ k' = k + 1
        /\ payoffs_' = payoffs_
        /\ Len(Appended) >= 2
        /\ Appended[Len(Appended)] = Entry("Error", k, "Exception caught", <<>>)
        /\ Cardinality(ExceptionEntries(Appended)) = 1
        /\ Appended[Len(Appended) - 1].tag = "Error"
        /\ Appended[Len(Appended) - 1].line = k
        /\ Appended[Len(Appended) - 1].msg \in Reasons

C24_CaughtOnce == []C24_State /\ [][C24_Step]_vars

\* x = -(t + a) with the tree t absent failed two levels down and the next
\* line, a = 3, was bound
C24_Witness ==
    /\ pc = "Constructed"
    /\ script = <<Parsed(sX, Unary("UNARYMINUS", Binary("PLUS", NoTree, Identifier(sA)))), lA3>>
    /\ HasEntry("Error", 0, "Empty expression tree")
    /\ HasEntry("Error", 0, "Exception caught")
    /\ HasEntry("Insert", 1, "line")
    /\ DOMAIN payoffs_ = {sA}

-----------------------------------------------------------------------------
\* the text is a number: digits
IsNumberText(t) == t # <<>> /\ \A i \in DOMAIN t : t[i] \in Digit

\* the right side of the line of this step of parseScript
RightSide == MatchAssignment(RemoveSpaces(script'[k + 1].text)).what[3]

Pluses(t) == {i \in DOMAIN t : t[i] = "+"}

\* the right side is an operand, or two operands with + between them
PlainRightSide ==
    /\ pc = "parseScript"
    /\ k < nLines
    /\ MatchAssignment(RemoveSpaces(script'[k + 1].text)).ok
    /\ \A i \in DOMAIN RightSide : RightSide[i] \in AlNum \cup {"+"}
    /\ Pluses(RightSide) \subseteq 2..(Len(RightSide) - 1)
    /\ Cardinality(Pluses(RightSide)) <= 1

\* its operands
OperandTexts ==
    IF Pluses(RightSide) = {} THEN <<RightSide>>
    ELSE <<SubSeq(RightSide, 1, (CHOOSE i \in Pluses(RightSide) : TRUE) - 1),
           From(RightSide, (CHOOSE i \in Pluses(RightSide) : TRUE) + 1)>>

\* what the log says of an operand that is resolved as the statement has it
Resolution(t) ==
    IF IsNumberText(t) THEN "is fixed amount"
    ELSE IF t \in DOMAIN payoffs_ THEN "is in map"
    ELSE "is no payoff"

\* C25: parseScript resolves each operand, in order, to a fixed amount when
\* its text is a number, to the node bound to it when its text is no number
\* and is a bound name, and fails the line, binding nothing, when it is
\* neither.
C25_Step ==
    PlainRightSide =>
        /\ \A i \in DOMAIN OperandTexts :
              (\A j \in 1..(i - 1) : Resolution(OperandTexts[j]) # "is no payoff") =>
                 /\ Len(Appended) >= i
                 /\ Appended[i].line = k
                 /\ Appended[i].msg = Resolution(OperandTexts[i])
        /\ (\E i \in DOMAIN OperandTexts : Resolution(OperandTexts[i]) = "is no payoff") =>
              /\ payoffs_' = payoffs_
              /\ Rejected(scriptLog_', k)
        /\ (/\ Len(OperandTexts) = 1
            /\ Resolution(OperandTexts[1]) = "is in map"
            /\ (overwrite \/ TargetName(script'[k + 1], pc) \notin DOMAIN payoffs_)) =>
              payoffs_'[TargetName(script'[k + 1], pc)] = payoffs_[OperandTexts[1]]

C25_LegacyOperands == [][C25_Step]_vars

-----------------------------------------------------------------------------
\* two digits, one of Jan..Dec, four digits
WellFormedDate(t) ==
    /\ Len(t) = 9
    /\ \A i \in {1, 2, 6, 7, 8, 9} : t[i] \in Digit
    /\ \E m \in 1..12 : SubSeq(t, 3, 5) = MonthNames[m]

\* the right side of this step's line is a payment or a payoff at a date
DatedStep ==
    /\ AssignmentStep
    /\ ~WrongShape(script'[k + 1].expressionTree)
    /\ script'[k + 1].expressionTree.childs[1].type \in {"PAY_WITHDATE", "PAYOFFAT_WITHDATE"}
    /\ ~WrongShape(script'[k + 1].expressionTree.childs[1])

\* C26: a date token that is not two digits, a month of Jan..Dec and four
\* digits is not converted: the line that carries it fails in the compiler
\* with the entry that the token cannot be converted, binds nothing, and the
\* loop goes on.
C26_Step ==
    (DatedStep /\ ~WellFormedDate(script'[k + 1].expressionTree.childs[1].leafs[1])) =>
        /\ pc' = pc
        /\ payoffs_' = payoffs_
        /\ heap' = heap
        /\ Len(Appended) = 2
        /\ Appended[1].msg = "cannot convert to number"
        /\ Appended[2] = Entry("Error", k, "Exception caught", <<>>)

C26_MalformedDatesFail == [][C26_Step]_vars

-----------------------------------------------------------------------------
\* C27: the step of parseFlexBisonScript for line k appends the tree of the
\* line, with k, to the expressions when the driver gave a tree, whatever
\* the driver returned and whatever became of the line afterwards, and
\* leaves the expressions as they are when it gave none; no other step, and
\* so no step of parseScript, changes the expressions.
C27_Step ==
    IF pc = "parseFlexBisonScript" /\ k < nLines
    THEN expressions_' =
            IF IsNull(script'[k + 1].expressionTree) THEN expressions_
            ELSE Append(expressions_,
                        [line |-> k, tree |-> script'[k + 1].expressionTree])
    ELSE expressions_' = expressions_

C27_TreeRecorded == [][C27_Step]_vars

\* the driver failed on line 0 and gave a tree for it: the tree is
\* recorded, an Error entry is all the line left, and line 1, without a
\* tree, recorded nothing
C27_Witness ==
    /\ pc = "Result"
    /\ script = <<lPartial, lEmpty>>
    /\ expressions_ = << [line |-> 0, tree |-> lPartial.expressionTree] >>
    /\ HasEntry("Error", 0, "errorMsg")
    /\ HasEntry("Error", 1, "Empty expression tree")
    /\ DOMAIN payoffs_ \subseteq {sA}
    /\ Len(heap) = Len(payoffs)

-----------------------------------------------------------------------------
\* the tree is an assignment or holds one
RECURSIVE HoldsAssignment(_)
HoldsAssignment(tree) ==
    /\ ~IsNull(tree)
    /\ \/ tree.type = "ASSIGNMENT"
       \/ \E i \in DOMAIN tree.childs : HoldsAssignment(tree.childs[i])

\* the tree with the number 1 in the place of each assignment
RECURSIVE Stripped(_)
Stripped(tree) ==
    IF IsNull(tree) THEN tree
    ELSE IF tree.type = "ASSIGNMENT" THEN Number(<<"1">>)
    ELSE [tree EXCEPT !.childs = [i \in DOMAIN tree.childs |-> Stripped(tree.childs[i])]]

\* C28: a line whose right side is an assignment or holds one, at any
\* depth, fails in the compiler: it binds nothing, neither its own target
\* nor the target of the inner assignment, and ends with an Error entry for
\* the line.  The compiler finds no case for the assignment: it logs
\* 'unknown expression type' unless the right side has another fault, and
\* when the right side is itself the assignment this entry and the one for
\* the exception are all the step logs, and no node is created.
C28_Step ==
    (/\ AssignmentStep
     /\ ~WrongShape(script'[k + 1].expressionTree)
     /\ HoldsAssignment(script'[k + 1].expressionTree.childs[1])) =>
        /\ pc' = pc
        /\ payoffs_' = payoffs_
        /\ compiled'[k + 1].p = 0
        /\ Rejected(scriptLog_', k)
        /\ ~Faulty(Stripped(script'[k + 1].expressionTree.childs[1]), payoffs_) =>
              \E i \in DOMAIN Appended :
                 Appended[i] = Entry("Error", k, "unknown expression type", <<>>)
        /\ script'[k + 1].expressionTree.childs[1].type = "ASSIGNMENT" =>
              /\ heap' = heap
              /\ Appended = << Entry("Error", k, "unknown expression type", <<>>),
                               Entry("Error", k, "Exception caught", <<>>) >>

C28_AssignmentOnlyAtTop == [][C28_Step]_vars

\* x = 1 * (a = 1) bound neither x nor a
C28_Witness ==
    /\ pc = "Result"
    /\ keys = <<>>
    /\ script = <<Parsed(sX, Binary("MULT", Number(<<"1">>), Assignment(sA, Number(<<"1">>))))>>
    /\ payoffs_ = EmptyMap
    /\ HasEntry("Error", 0, "unknown expression type")
    /\ HasEntry("Error", 0, "Exception caught")

-----------------------------------------------------------------------------
\* the nodes a step created
Created == (Len(heap) + 1)..Len(heap')

\* in the script Rebinding, the line of x and the two lines of a
RebindingAt(first) ==
    /\ script = (IF first = 1 THEN <<>> ELSE <<SentinelLine>>) \o Rebinding
    /\ Len(compiled) = Len(script)
    /\ \A j \in first..Len(compiled) : Succeeded(j)

\* after a was bound again, x still refers to the node a had when x was
\* compiled, and the line after the rebinding got the new node of a
C29_State ==
    \A first \in 1..2 :
        (RebindingAt(first) /\ overwrite) =>
            /\ heap[payoffs_[sX]].args[1] = compiled[first].p
            /\ payoffs_[sA] = compiled[first + 2].p
            /\ payoffs_[sA] # compiled[first].p
            /\ payoffs_[sPayoff] = payoffs_[sA]

\* C29: no step changes a node of the heap; the nodes a line creates refer
\* to nodes the same line created or to nodes the map held before the line;
\* a line changes the binding of no name but its own target, and of that
\* only with overwrite enabled, to the node the line compiled.
C29_Step ==
    /\ Extends(heap', heap)
    /\ AtLine =>
          /\ \A n \in Created : \A i \in DOMAIN heap'[n].args :
                \/ heap'[n].args[i] = 0
                \/ heap'[n].args[i] \in Created
                \/ heap'[n].args[i] \in Range(payoffs_)
          /\ \A name \in DOMAIN payoffs_ :
                payoffs_'[name] # payoffs_[name] =>
                   /\ overwrite
                   /\ name = compiled'[k + 1].var
                   /\ payoffs_'[name] = compiled'[k + 1].p
                   /\ scriptLog_'[Len(scriptLog_')].tag = "Replace"

C29_RebindingKeepsNodes == []C29_State /\ [][C29_Step]_vars

\* parseFlexBisonScript: a = 2, x = a + 2, a = 3, payoff = a with no initial
\* bindings: x refers to the first node of a, payoff to the second
C29_Witness ==
    /\ pc = "Constructed"
    /\ keys = <<>>
    /\ RebindingAt(1)
    /\ HasEntry("Replace", 2, "line")
    /\ heap[payoffs_[sX]].args[1] = compiled[1].p
    /\ payoffs_[sA] = compiled[3].p
    /\ compiled[1].p # compiled[3].p
    /\ result_ = payoffs_[sA]

-----------------------------------------------------------------------------
\* the Insert entries of a log
Inserts(lg) == {i \in DOMAIN lg : lg[i].tag = "Insert"}

\* the Insert and Replace entries a step appended to the log
Stored == {i \in (Len(scriptLog_) + 1)..Len(scriptLog_') :
              scriptLog_'[i].tag \in {"Insert", "Replace"}}

\* during and after the loops the map holds as many names as there are
\* distinct initial names and Insert entries
C30_State ==
    pc \in Loops \cup {"Result", "Constructed"} =>
        Cardinality(DOMAIN payoffs_) =
            Cardinality(Range(keys)) + Cardinality(Inserts(scriptLog_))

\* a step of either loop appends at most one Insert or Replace entry, for
\* its own line; if the map changes the step appended one
C30_Entries ==
    AtLine =>
        /\ Cardinality(Stored) <= 1
        /\ \A i \in Stored : scriptLog_'[i].line = k
        /\ payoffs_' # payoffs_ => Stored # {}

\* C30 as stated: the count of names, at most one Insert or Replace entry a
\* line, and the map changes at line k if and only if the log gains an
\* Insert or Replace entry for line k.
C30_TableAndLogAgree ==
    /\ []C30_State
    /\ [][C30_Entries /\ (AtLine => (payoffs_' # payoffs_ <=> Stored # {}))]_vars

\* C30 amended: the count of names, at most one Insert or Replace entry a
\* line, a map that changes only with such an entry; and a line with such
\* an entry has its target bound to the node it compiled, which changes the
\* map unless the target was bound to that node already.
C30_Step ==
    /\ C30_Entries
    /\ (AtLine /\ Stored # {}) =>
          /\ payoffs_' = Put(payoffs_, compiled'[k + 1].var, compiled'[k + 1].p)
          /\ payoffs_' = payoffs_ <=>
                /\ compiled'[k + 1].var \in DOMAIN payoffs_
                /\ payoffs_[compiled'[k + 1].var] = compiled'[k + 1].p

C30_TableFollowsLog == []C30_State /\ [][C30_Step]_vars

\* x = 1, x = x with overwrite enabled: line 1 has a Replace entry and
\* leaves the map as line 0 made it
C30_Witness ==
    /\ pc = "Constructed"
    /\ overwrite
    /\ keys = <<>>
    /\ Len(compiled) = 2
    /\ compiled[1].var = sX
    /\ compiled[2] = compiled[1]
    /\ HasEntry("Insert", 0, "line")
    /\ HasEntry("Replace", 1, "line")
    /\ payoffs_ = [name \in {sX} |-> compiled[1].p]

=============================================================================
